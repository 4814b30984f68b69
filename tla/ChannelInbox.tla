---------------------------- MODULE ChannelInbox ----------------------------
(***************************************************************************)
(* The durable inbox of a Feishu account: src/src/feishu.ts (handleIncoming- *)
(* Message, processClaimedIncomingMessage, recoverQueuedInbox, stop), the    *)
(* inbox table of src/src/channel-reliability-store.ts and the callbacks     *)
(* src/src/im-manager.ts wraps around it.                                    *)
(*                                                                         *)
(* Every event of the platform is a row.  A handler claims the row under a   *)
(* lease, and each write to the row needs that claim; a claim that lapsed    *)
(* can be taken over while the old handler is still waiting for a network    *)
(* call.  What a slash command has done so far is a checkpoint in the row.   *)
(***************************************************************************)
EXTENDS Naturals

CONSTANTS
    Events,     \* external message ids
    Slash,      \* ... of text that begins with a slash
    Known,      \* ... which onCommand knows
    Bare,       \* ... of /queue and /steer without a message
    Unwanted,   \* ... that are empty, or from a sender or of a kind the chat refuses
    Direct      \* ... of a direct chat nobody has registered

\* "later": the status is `queued' and available_at lies ahead.
Statuses == {"absent", "queued", "later", "processing", "processed", "ignored",
             "failed"}
Terminal == {"processed", "ignored", "failed"}
Checkpoints == {"none", "executing", "pending_reply", "sending_reply",
                "reply_acknowledged"}

\* Where a handler is: in onCommand, about to send the reply, sending it, apologising,
\* sending the hint of a bare mode, fetching attachments, the same without a resolver,
\* sending the card of a queued follow-up, about to complete the row.
Places == {"command", "deliver", "reply", "apology", "hint", "read", "rawRead", "card",
           "finish"}

VARIABLES
    item,       \* the row, whether its lease lapsed, and where its claimant is
    stale,      \* where handlers are whose claim was taken over
    gate,       \* shouldDeferInbound is FALSE
    connection, \* "up", "closing" (stopped, something of it still runs), "down"
    bound,      \* events of chats the resolver has a route for
    ran,        \* history: how often onCommand ran for a known command (2: or more)
    shown,      \* history: how often its reply was shown (2: or more)
    stored,     \* history: events whose message was stored for the agent
    astray      \* history: ... under the JID of no registered chat

inboxVars == <<item, stale, gate, connection, bound, ran, shown, stored, astray>>

Rows == [status : Statuses, lapsed : BOOLEAN, place : Places \cup {"none"},
         checkpoint : Checkpoints]

Row(status, lapsed, place, checkpoint) ==
    [status |-> status, lapsed |-> lapsed, place |-> place, checkpoint |-> checkpoint]

Init ==
    /\ item = [e \in Events |-> Row("absent", FALSE, "none", "none")]
    /\ stale = [e \in Events |-> {}]
    /\ gate = FALSE /\ connection = "down"
    /\ bound = Events \ Direct
    /\ ran = [e \in Events |-> 0] /\ shown = [e \in Events |-> 0]
    /\ stored = {} /\ astray = {}

-----------------------------------------------------------------------------
(* The row *)

Put(e, row) == item' = [item EXCEPT ![e] = row]
Hold(e, place, checkpoint) == Put(e, Row("processing", FALSE, place, checkpoint))
Finish(e, status) == Put(e, Row(status, FALSE, "none", item[e].checkpoint))
Retry(e, checkpoint) == Put(e, Row("later", FALSE, "none", checkpoint))

\* Mutant: a row whose handler died is never taken over.
Claimable_Queued(e) == item[e].status = "queued"

\* claimChannelInbox
Claimable(e) ==
    \/ item[e].status = "queued"
    \/ item[e].status = "processing" /\ item[e].lapsed

\* By the delivery itself, a redelivery or a recovery loop; a handler that holds the
\* old claim goes on without it.
Claim(e) ==
    /\ Claimable(e)
    /\ stale' = [stale EXCEPT ![e] = @ \cup ({item[e].place} \ {"none"})]

\* The claimant goes on, and its claim is live.
Resumes(e, place) ==
    /\ item[e].place = place /\ ~item[e].lapsed
    /\ UNCHANGED stale

Twice(n) == IF n = 0 THEN 1 ELSE 2

-----------------------------------------------------------------------------
(* processClaimedIncomingMessage up to its first wait *)

\* A live event, or one the backfill finds, is recorded first.
Arrive(e) ==
    /\ connection # "down" /\ item[e].status = "absent"
    /\ Put(e, Row("queued", FALSE, "none", "none"))
    /\ UNCHANGED <<stale, gate, connection, bound, ran, shown, stored, astray>>

Takes(e) == connection = "up" /\ Claim(e)
Admits(e) == Takes(e) /\ gate /\ e \notin Unwanted

Defer(e) ==
    /\ Takes(e) /\ ~gate
    /\ Retry(e, item[e].checkpoint)
    /\ UNCHANGED <<gate, connection, bound, ran, shown, stored, astray>>

Ignore(e) ==
    /\ Takes(e) /\ gate /\ e \in Unwanted
    /\ Finish(e, "ignored")
    /\ UNCHANGED <<gate, connection, bound, ran, shown, stored, astray>>

Hint(e) ==
    /\ Admits(e) /\ e \in Bare
    /\ Hold(e, "hint", item[e].checkpoint)
    /\ UNCHANGED <<gate, connection, bound, ran, shown, stored, astray>>

\* Mutant: a command that was interrupted runs again.
Fresh_Rerun(e) == item[e].checkpoint \in {"none", "executing"}

Fresh(e) == item[e].checkpoint = "none"

\* The checkpoint `executing' is written before onCommand is called.
Execute(e) ==
    /\ Admits(e) /\ e \in Slash /\ Fresh(e)
    /\ Hold(e, "command", "executing")
    /\ ran' = IF e \in Known THEN [ran EXCEPT ![e] = Twice(@)] ELSE ran
    /\ UNCHANGED <<gate, connection, bound, shown, stored, astray>>

\* The reply was rejected, or the handler ended before it was sent.
Resend(e) ==
    /\ Admits(e) /\ e \in Slash /\ item[e].checkpoint = "pending_reply"
    /\ Hold(e, "deliver", "pending_reply")
    /\ UNCHANGED <<gate, connection, bound, ran, shown, stored, astray>>

\* The reply was acknowledged, and the handler ended before it could say so.
Confirm(e) ==
    /\ Admits(e) /\ e \in Slash /\ item[e].checkpoint = "reply_acknowledged"
    /\ Finish(e, "processed")
    /\ UNCHANGED <<gate, connection, bound, ran, shown, stored, astray>>

\* Nobody knows what came of the command or of its reply.
Abandon(e) ==
    /\ Admits(e) /\ e \in Slash
    /\ item[e].checkpoint \in {"executing", "sending_reply"}
    /\ Finish(e, "failed")
    /\ UNCHANGED <<gate, connection, bound, ran, shown, stored, astray>>

\* An ordinary message whose route the resolver finds ...
Read(e) ==
    /\ Admits(e) /\ e \notin Slash \cup Bare /\ e \in bound
    /\ Hold(e, "read", "none")
    /\ UNCHANGED <<gate, connection, bound, ran, shown, stored, astray>>

\* ... and one without a route.  The resolver of im-manager.ts throws, for a direct
\* chat already at the check that comes before its registration.
Reject(e) ==
    /\ Admits(e) /\ e \notin Slash \cup Bare \cup bound
    /\ Retry(e, "none")
    /\ UNCHANGED <<gate, connection, bound, ran, shown, stored, astray>>

\* connectOptions is gone, but a recovery loop or the socket still runs: no gate, no
\* command, no resolver, no sender is refused.
ReadRaw(e) ==
    /\ connection = "closing" /\ Claim(e) /\ e \notin Bare \cup Unwanted
    /\ Hold(e, "rawRead", item[e].checkpoint)
    /\ UNCHANGED <<gate, connection, bound, ran, shown, stored, astray>>

Start(e) ==
    \/ Defer(e) \/ Ignore(e) \/ Hint(e) \/ Execute(e) \/ Resend(e) \/ Confirm(e)
    \/ Abandon(e) \/ Read(e) \/ Reject(e) \/ ReadRaw(e)

-----------------------------------------------------------------------------
(* ... and what follows the waits while the claim is live: a step ends with a   *)
(* write to the row, after which the process may die.                          *)

\* onCommand has a reply: it is saved ...
CommandReplies(e) ==
    /\ Resumes(e, "command") /\ e \in Known
    /\ Hold(e, "deliver", "pending_reply")
    /\ UNCHANGED <<gate, connection, bound, ran, shown, stored, astray>>

\* ... marked as being sent, and sent.
SendReply(e) ==
    /\ Resumes(e, "deliver")
    /\ Hold(e, "reply", "sending_reply")
    /\ UNCHANGED <<gate, connection, bound, ran, shown, stored, astray>>

\* onCommand knows no such command: the text is a message, which the mention gate may
\* not let through.
CommandIsUnknown(e) ==
    /\ Resumes(e, "command") /\ e \notin Known
    /\ \/ Put(e, Row("ignored", FALSE, "none", "none"))
       \/ e \in bound /\ Hold(e, "read", "none")
       \/ e \notin bound /\ Retry(e, "none")
    /\ UNCHANGED <<gate, connection, bound, ran, shown, stored, astray>>

CommandThrows(e) ==
    /\ Resumes(e, "command")
    /\ Hold(e, "apology", "executing")
    /\ UNCHANGED <<gate, connection, bound, ran, shown, stored, astray>>

ApologyEnds(e) ==
    /\ Resumes(e, "apology")
    /\ Finish(e, "failed")
    /\ UNCHANGED <<gate, connection, bound, ran, shown, stored, astray>>

ReplyArrives(e) ==
    /\ Resumes(e, "reply")
    /\ Hold(e, "finish", "reply_acknowledged")
    /\ shown' = [shown EXCEPT ![e] = Twice(@)]
    /\ UNCHANGED <<gate, connection, bound, ran, stored, astray>>

\* Mutant: a reply the platform rejected is as good as sent.
ReplyIsRejected_Processed(e) ==
    /\ Resumes(e, "reply")
    /\ Finish(e, "processed")
    /\ UNCHANGED <<gate, connection, bound, ran, shown, stored, astray>>

\* The platform accepted nothing.
ReplyIsRejected(e) ==
    /\ Resumes(e, "reply")
    /\ Retry(e, "pending_reply")
    /\ UNCHANGED <<gate, connection, bound, ran, shown, stored, astray>>

\* A timeout: it may have arrived.
ReplyIsUncertain(e) ==
    /\ Resumes(e, "reply")
    /\ Finish(e, "failed")
    /\ shown' \in {shown, [shown EXCEPT ![e] = Twice(@)]}
    /\ UNCHANGED <<gate, connection, bound, ran, stored, astray>>

HintEnds(e) ==
    /\ Resumes(e, "hint")
    /\ Finish(e, "processed") \/ Retry(e, item[e].checkpoint)
    /\ UNCHANGED <<gate, connection, bound, ran, shown, stored, astray>>

\* Saving an attachment or the message throws.
ReadFails(e) ==
    /\ Resumes(e, "read") \/ Resumes(e, "rawRead")
    /\ Retry(e, item[e].checkpoint)
    /\ UNCHANGED <<gate, connection, bound, ran, shown, stored, astray>>

\* The card of a follow-up that waits for the running query was sent, or not.
CardEnds(e) ==
    /\ Resumes(e, "card")
    /\ Finish(e, "processed") \/ Retry(e, item[e].checkpoint)
    /\ UNCHANGED <<gate, connection, bound, ran, shown, stored, astray>>

Complete(e) ==
    /\ Resumes(e, "finish")
    /\ Finish(e, "processed")
    /\ UNCHANGED <<gate, connection, bound, ran, shown, stored, astray>>

Resume(e) ==
    \/ CommandReplies(e) \/ CommandIsUnknown(e) \/ CommandThrows(e) \/ SendReply(e)
    \/ ApologyEnds(e) \/ ReplyArrives(e) \/ ReplyIsRejected(e) \/ ReplyIsUncertain(e)
    \/ HintEnds(e) \/ ReadFails(e) \/ CardEnds(e) \/ Complete(e)

-----------------------------------------------------------------------------
(* Storing the message, which asks for no claim *)

StoreRead(e) ==
    /\ Resumes(e, "read")
    /\ \E next \in {"card", "finish"} : Hold(e, next, item[e].checkpoint)
    /\ stored' = stored \cup {e}
    /\ UNCHANGED <<gate, connection, bound, ran, shown, astray>>

\* Handlers that lost their claim end without a trace in the row.
Drop(e, place) ==
    \/ /\ item[e].place = place /\ item[e].lapsed
       /\ item' = [item EXCEPT ![e].place = "none"]
       /\ UNCHANGED stale
    \/ /\ place \in stale[e]
       /\ stale' = [stale EXCEPT ![e] = @ \ {place}]
       /\ UNCHANGED item

StoreWithoutClaim(e) ==
    /\ Drop(e, "read")
    /\ stored' = stored \cup {e}
    /\ UNCHANGED <<gate, connection, bound, ran, shown, astray>>

Store(e) == StoreRead(e) \/ StoreWithoutClaim(e)

\* What is written about the route replaces the checkpoint of a command.
StoreRaw(e) ==
    /\ \/ Resumes(e, "rawRead") /\ Hold(e, "finish", "none")
       \/ Drop(e, "rawRead")
    /\ astray' = astray \cup {e}
    /\ UNCHANGED <<gate, connection, bound, ran, shown, stored>>

\* A reply that was under way may arrive.
EndWithoutClaim(e, place) ==
    /\ Drop(e, place)
    /\ \/ UNCHANGED shown
       \/ place = "reply" /\ shown' = [shown EXCEPT ![e] = Twice(@)]
    /\ UNCHANGED <<gate, connection, bound, ran, stored, astray>>

-----------------------------------------------------------------------------
(* Time, the gate, the binding and the connection *)

\* No heartbeat renewed the lease in time: the event loop was held up, the database
\* was busy, the connection was stopped or the process is gone.
Lapse(e) ==
    /\ item[e].status = "processing" /\ ~item[e].lapsed
    /\ item' = [item EXCEPT ![e].lapsed = TRUE]
    /\ UNCHANGED <<stale, gate, connection, bound, ran, shown, stored, astray>>

BecomeDue(e) ==
    /\ item[e].status = "later"
    /\ item' = [item EXCEPT ![e].status = "queued"]
    /\ UNCHANGED <<stale, gate, connection, bound, ran, shown, stored, astray>>

\* Startup recovery ends, or the service is paused.
TurnGate ==
    /\ gate' = ~gate
    /\ UNCHANGED <<item, stale, connection, bound, ran, shown, stored, astray>>

\* A user binds the chat or takes the binding away; a chat has to be registered first.
Rebind(e) ==
    /\ e \notin Direct
    /\ bound' = IF e \in bound THEN bound \ {e} ELSE bound \cup {e}
    /\ UNCHANGED <<item, stale, gate, connection, ran, shown, stored, astray>>

Connect ==
    /\ connection # "up" /\ connection' = "up"
    /\ UNCHANGED <<item, stale, gate, bound, ran, shown, stored, astray>>

Stop ==
    /\ connection = "up" /\ connection' = "closing"
    /\ UNCHANGED <<item, stale, gate, bound, ran, shown, stored, astray>>

StopEnds ==
    /\ connection = "closing" /\ connection' = "down"
    /\ UNCHANGED <<item, stale, gate, bound, ran, shown, stored, astray>>

\* A crash of the host.
Replying(e) == item[e].place = "reply" \/ "reply" \in stale[e]

\* Every handler is gone; replies that were under way may arrive.
Crash ==
    /\ item' = [e \in Events |-> [item[e] EXCEPT !.place = "none"]]
    /\ stale' = [e \in Events |-> {}]
    /\ gate' = FALSE /\ connection' = "down"
    /\ \E late \in SUBSET {e \in Events : Replying(e)} :
           shown' = [e \in Events |-> IF e \in late THEN Twice(shown[e]) ELSE shown[e]]
    /\ UNCHANGED <<bound, ran, stored, astray>>

-----------------------------------------------------------------------------
\* Everything but Store and Crash, which reach other parts of the system.
InboxStep(e) ==
    \/ Arrive(e) \/ Start(e) \/ Resume(e) \/ StoreRaw(e)
    \/ Lapse(e) \/ BecomeDue(e) \/ Rebind(e)
    \/ \E place \in Places \ {"read", "rawRead"} : EndWithoutClaim(e, place)

ServiceStep == TurnGate \/ Connect \/ Stop \/ StopEnds

Next ==
    \/ \E e \in Events : InboxStep(e) \/ Store(e)
    \/ ServiceStep \/ Crash

Spec == Init /\ [][Next]_inboxVars

-----------------------------------------------------------------------------
(* Properties *)

\* Each field has its type.
InboxTypeOK ==
    /\ item \in [Events -> Rows]
    /\ stale \in [Events -> SUBSET Places]
    /\ gate \in BOOLEAN /\ connection \in {"up", "closing", "down"}
    /\ bound \subseteq Events
    /\ ran \in [Events -> 0..2] /\ shown \in [Events -> 0..2]
    /\ stored \subseteq Events /\ astray \subseteq Events

\* Whatever is redelivered, lapses, is taken over or crashes, a command runs once and
\* its reply is shown once (the checkpoints of a slash command), unless a connection
\* that was being stopped took it for text.
EffectsHappenOnce ==
    \A e \in Events \ astray : ran[e] <= 1 /\ shown[e] <= 1

\* An event is over only for a reason: `processed' means its message was stored or its
\* reply shown, and `failed' that a command cannot safely be tried again
\* (completeClaimedInbound, failClaimedInbound).
SettledTruthfully ==
    \A e \in Events :
        /\ item[e].status = "processed" =>
               e \in stored \cup astray \cup Bare \/ shown[e] > 0
        /\ item[e].status = "failed" => e \in Slash
        /\ item[e].status = "failed" /\ e \in Known => ran[e] > 0
=============================================================================
