------------------------------ MODULE Inbound ------------------------------
(***************************************************************************)
(* From the platform to the agent: the events of a Feishu account become     *)
(* rows of its inbox (ChannelInbox), a handler that has read an event stores *)
(* the message, and from there the cursors carry it (DeliveryCursor).  Other *)
(* channels store their messages without an inbox.  A crash of the host ends *)
(* the handlers of the inbox and the runs of the chat together.              *)
(***************************************************************************)
EXTENDS DeliveryCursor

CONSTANTS Events, Slash, Known, Bare, Unwanted, Direct

\* A message keeps the id of its event.
ASSUME InboundAssumption == Events \subseteq Msgs

VARIABLES item, stale, gate, connection, bound, ran, shown, stored, astray

Inbox == INSTANCE ChannelInbox

inboxVars == <<item, stale, gate, connection, bound, ran, shown, stored, astray>>
inboundVars == <<vars, inboxVars>>

InboundInit == Init /\ Inbox!Init

\* storeMessageDirect replaces a row it finds: a second time changes nothing.
Intake(e) ==
    /\ Inbox!Store(e)
    /\ IF row[e] = "absent" THEN StoreFromChannel(e) ELSE UNCHANGED vars

InboxMoves ==
    /\ (\E e \in Events : Inbox!InboxStep(e)) \/ Inbox!ServiceStep
    /\ UNCHANGED vars

HostCrash == Restart /\ Inbox!Crash

\* Everything DeliveryCursor does but the start of the host.
ChatStep ==
    \/ \E m \in Msgs \ Events : Stores(m)
    \/ \E m \in Msgs : FollowUps(m)
    \/ Polls \/ Replies \/ Turns \/ Runs \/ FollowUpTimer

InboundNext ==
    \/ \E e \in Events : Intake(e)
    \/ InboxMoves
    \/ ChatStep /\ UNCHANGED inboxVars
    \/ HostCrash

InboundSpec == InboundInit /\ [][InboundNext]_inboundVars

-----------------------------------------------------------------------------
\* What becomes of a row goes on: the recovery loops run at startup, after a retry
\* delay and with every health check, handlers end, and the lease of a handler that
\* died runs out.  The startup gate opens and the account is connected again.
IntakeFairness ==
    /\ WF_inboundVars(UNCHANGED vars /\ ~gate /\ Inbox!TurnGate)
    /\ WF_inboundVars(UNCHANGED vars /\ Inbox!Connect)
    /\ \A e \in Events :
           WF_inboundVars(
               \/ Intake(e)
               \/ /\ UNCHANGED vars
                  /\ \/ Inbox!Start(e) \/ Inbox!Resume(e) \/ Inbox!StoreRaw(e) \/ Inbox!BecomeDue(e)
                     \/ item[e].place = "none" /\ Inbox!Lapse(e))

EffectsHappenOnce == Inbox!EffectsHappenOnce
SettledTruthfully == Inbox!SettledTruthfully

\* Every event that was recorded is over in the end, and its message too if it was
\* stored for the agent, unless its chat has no route, the retries are used up or the
\* user stops the runner (recoverQueuedInbox with EveryMessageIsHandled).
EveryEventIsAnswered ==
    \A e \in Events : item[e].status # "absent" ~>
        \/ /\ item[e].status \in Inbox!Terminal
           /\ e \in stored => e \in handled \/ resting
        \/ e \notin bound

\* The first message of a direct chat is admitted, since the chat is registered before
\* its route is looked up (feishu-route-safety.test.ts).
FirstMessageIsAdmitted ==
    \A e \in Direct : item[e].status # "absent" ~> item[e].status \in Inbox!Terminal
=============================================================================
