----------------------------- MODULE MCInbound -----------------------------
(* Inbound for TLC, in scenes like those of MCDeliveryCursor: the events that     *)
(* come through the Feishu inbox, the messages that come another way, and, per    *)
(* kind of event, how many there are.                                             *)
EXTENDS Inbound, MCDeliveryCursor

InboxScene(events, msgs, part) == ("events" :> events) @@ Scene(msgs, {}, part)

InboundMCInit == MCInit /\ Inbox!Init

\* The inbox with its own names: what is free and what a scene has to allow.
MCInboxFree(e) ==
    \/ Inbox!Arrive(e) \/ Inbox!Start(e) \/ Inbox!StoreRaw(e) \/ Inbox!BecomeDue(e)
    \/ Inbox!CommandReplies(e) \/ Inbox!CommandIsUnknown(e) \/ Inbox!SendReply(e)
    \/ Inbox!ApologyEnds(e) \/ Inbox!ReplyArrives(e) \/ Inbox!Complete(e)
    \/ \E place \in Inbox!Places \ {"read", "rawRead"} : Inbox!EndWithoutClaim(e, place)

MCInbox ==
    \/ \E e \in scene.events :
        \/ MCInboxFree(e) /\ UNCHANGED spent
        \/ Inbox!Lapse(e) /\ SpendIf("lapse", item[e].place # "none")
        \/ Inbox!CommandThrows(e) /\ Spend("throw")
        \/ Inbox!ReplyIsRejected(e) /\ Spend("reject")
        \/ Inbox!ReplyIsUncertain(e) /\ Spend("uncertain")
        \/ Inbox!ReadFails(e) /\ Spend("lost")
        \/ (Inbox!HintEnds(e) \/ Inbox!CardEnds(e)) /\ SpendIf("lost", item'[e].status = "later")
        \/ Inbox!Rebind(e) /\ SpendIf("unbind", e \in bound)
    \/ Inbox!TurnGate /\ SpendIf("pause", gate)
    \/ Inbox!Connect /\ UNCHANGED spent
    \/ Inbox!Stop /\ Spend("close")
    \/ Inbox!StopEnds /\ UNCHANGED spent

InboundMCNext ==
    /\ UNCHANGED scene
    /\ \/ MCChat /\ UNCHANGED inboxVars
       \/ MCInbox /\ UNCHANGED vars
       \/ \E e \in scene.events :
            /\ Intake(e) /\ SpendIf("card", item'[e].place = "card")
            /\ row[e] = "absent" => IsNext(e)
       \/ HostCrash /\ Spend("crash")

InboundMCSpec == InboundMCInit /\ [][InboundMCNext]_<<inboundVars, scene, spent>>
InboundFairSpec == InboundMCSpec /\ CursorFairness /\ IntakeFairness

\* As events of Feishu 3 and 4 are messages; 2 is a command of the host, 5 one it does
\* not know, 6 a bare mode, 7 is unwanted, 8 comes from a direct chat.
MCInboxScenes == {
    InboxScene({3}, {}, [crash |-> 1, lapse |-> 1, lost |-> 1]),
    InboxScene({3}, {}, [lapse |-> 2, card |-> 1, lost |-> 1]),
    InboxScene({3}, {}, [close |-> 1, pause |-> 1, unbind |-> 1, lapse |-> 1]),
    InboxScene({3}, {4}, [lapse |-> 1]),
    InboxScene({2}, {}, [crash |-> 2, lapse |-> 1, throw |-> 1, reject |-> 1]),
    InboxScene({2}, {}, [crash |-> 1, lapse |-> 2, uncertain |-> 1, reject |-> 2]),
    InboxScene({2}, {}, [close |-> 1, crash |-> 1, reject |-> 1]),
    InboxScene({5}, {}, [crash |-> 1, throw |-> 1, unbind |-> 1]),
    InboxScene({5}, {}, [crash |-> 1, lapse |-> 1, throw |-> 1]),
    InboxScene({2, 3}, {}, [crash |-> 1]),
    InboxScene({6, 7}, {}, [crash |-> 1, lapse |-> 1, lost |-> 1])}

\* The first message of a direct chat; nothing fails.
MCDirectScenes == {InboxScene({8}, {}, <<>>)}
=============================================================================
