--------------------------- MODULE InboundProofs ---------------------------
(***************************************************************************)
(* The composition behaves like each of its parts: what is proved of the     *)
(* inbox and of the cursors holds from the platform to the agent.            *)
(***************************************************************************)
EXTENDS Inbound, DeliveryCursorProofs

\* The inbox once more, with what is proved of it.
Proved == INSTANCE ChannelInboxProofs

\* To the inbox the chat, its runner and the other channels are not there (what the
\* handlers of feishu.ts do to the rows of the inbox does not depend on them).
LEMMA InboundIsAnInbox == InboundSpec => Inbox!Spec
<1>1. InboundInit => Inbox!Init
  BY DEF InboundInit
<1>2. [InboundNext]_inboundVars => [Inbox!Next]_(Inbox!inboxVars)
  <2> SUFFICES ASSUME [InboundNext]_inboundVars PROVE [Inbox!Next]_(Inbox!inboxVars)
    OBVIOUS
  <2>1. ASSUME NEW e \in Events, Intake(e) PROVE Inbox!Next
    BY <2>1 DEF Intake, Inbox!Next
  <2>2. CASE InboxMoves
    BY <2>2 DEF InboxMoves, Inbox!Next
  <2>3. CASE HostCrash
    BY <2>3 DEF HostCrash, Inbox!Next
  <2>4. CASE UNCHANGED inboxVars
    BY <2>4 DEF inboxVars, Inbox!inboxVars
  <2>5. CASE UNCHANGED inboundVars
    BY <2>4, <2>5 DEF inboundVars
  <2> QED BY <2>1, <2>2, <2>3, <2>4, <2>5 DEF InboundNext
<1> QED BY <1>1, <1>2, PTL DEF InboundSpec, Inbox!Spec

\* Both instances are one inbox: expanded, their steps are the same formula.
LEMMA InboxIsProved == InboundSpec => Proved!Spec
<1>1. Inbox!Init => Proved!Init
  BY DEF Inbox!Init, Proved!Init, Inbox!Row, Proved!Row
<1>2. ASSUME Inbox!Next PROVE Proved!Next
  BY <1>2, Zenon DEF
     Inbox!Next, Proved!Next, Inbox!Places, Proved!Places, Inbox!Row, Proved!Row,
     Inbox!Put, Proved!Put, Inbox!Hold, Proved!Hold, Inbox!Finish, Proved!Finish,
     Inbox!Retry, Proved!Retry, Inbox!Claimable, Proved!Claimable, Inbox!Claim,
     Proved!Claim, Inbox!Resumes, Proved!Resumes, Inbox!Twice, Proved!Twice,
     Inbox!Arrive, Proved!Arrive, Inbox!Takes, Proved!Takes, Inbox!Admits,
     Proved!Admits, Inbox!Defer, Proved!Defer, Inbox!Ignore, Proved!Ignore,
     Inbox!Hint, Proved!Hint, Inbox!Fresh, Proved!Fresh, Inbox!Execute,
     Proved!Execute, Inbox!Resend, Proved!Resend, Inbox!Confirm, Proved!Confirm,
     Inbox!Abandon, Proved!Abandon, Inbox!Read, Proved!Read, Inbox!Reject,
     Proved!Reject, Inbox!ReadRaw, Proved!ReadRaw, Inbox!Start, Proved!Start,
     Inbox!CommandReplies, Proved!CommandReplies, Inbox!SendReply, Proved!SendReply,
     Inbox!CommandIsUnknown, Proved!CommandIsUnknown, Inbox!CommandThrows,
     Proved!CommandThrows, Inbox!ApologyEnds, Proved!ApologyEnds,
     Inbox!ReplyArrives, Proved!ReplyArrives, Inbox!ReplyIsRejected,
     Proved!ReplyIsRejected, Inbox!ReplyIsUncertain, Proved!ReplyIsUncertain,
     Inbox!HintEnds, Proved!HintEnds, Inbox!ReadFails, Proved!ReadFails,
     Inbox!CardEnds, Proved!CardEnds, Inbox!Complete, Proved!Complete, Inbox!Resume,
     Proved!Resume, Inbox!StoreRead, Proved!StoreRead, Inbox!Drop, Proved!Drop,
     Inbox!StoreWithoutClaim, Proved!StoreWithoutClaim, Inbox!Store, Proved!Store,
     Inbox!StoreRaw, Proved!StoreRaw, Inbox!EndWithoutClaim, Proved!EndWithoutClaim,
     Inbox!Lapse, Proved!Lapse, Inbox!BecomeDue, Proved!BecomeDue, Inbox!TurnGate,
     Proved!TurnGate, Inbox!Rebind, Proved!Rebind, Inbox!Connect, Proved!Connect,
     Inbox!Stop, Proved!Stop, Inbox!StopEnds, Proved!StopEnds, Inbox!Replying,
     Proved!Replying, Inbox!Crash, Proved!Crash, Inbox!InboxStep, Proved!InboxStep,
     Inbox!ServiceStep, Proved!ServiceStep
<1>3. [Inbox!Next]_(Inbox!inboxVars) => [Proved!Next]_(Proved!inboxVars)
  BY <1>2 DEF Inbox!inboxVars, Proved!inboxVars
<1> QED BY <1>1, <1>3, InboundIsAnInbox, PTL DEF Inbox!Spec, Proved!Spec

\* From the platform on a command runs once and its reply is shown once, whatever the
\* chat does meanwhile (the checkpoints of a slash command in feishu.ts).
THEOREM CommandsTakeEffectOnce == InboundSpec => []EffectsHappenOnce
<1>1. Proved!EffectsHappenOnce => EffectsHappenOnce
  BY DEF Proved!EffectsHappenOnce, EffectsHappenOnce, Inbox!EffectsHappenOnce
<1> QED BY <1>1, InboxIsProved, Proved!CommandsRunOnce, PTL

\* ... and a row is over only for a reason (completeClaimedInbound,
\* failClaimedInbound).
THEOREM EventsSettleTruthfully == InboundSpec => []SettledTruthfully
<1>1. Proved!SettledTruthfully => SettledTruthfully
  BY DEF Proved!SettledTruthfully, SettledTruthfully, Inbox!SettledTruthfully
<1> QED BY <1>1, InboxIsProved, Proved!RowsSettleTruthfully, PTL

\* To the cursors a handler of the inbox is one more channel that stores messages.
LEMMA InboundIsAChat == InboundSpec => Spec
<1>1. InboundInit => Init
  BY DEF InboundInit
<1>2. [InboundNext]_inboundVars => [Next]_vars
  <2> SUFFICES ASSUME [InboundNext]_inboundVars PROVE [Next]_vars
    OBVIOUS
  <2>1. ASSUME NEW e \in Events, Intake(e) PROVE [Next]_vars
    BY <2>1, InboundAssumption DEF Intake, Next, Stores
  <2>2. CASE InboxMoves
    BY <2>2 DEF InboxMoves
  <2>3. CASE HostCrash
    BY <2>3 DEF HostCrash, Next
  <2>4. CASE ChatStep
    BY <2>4 DEF ChatStep, Next
  <2>5. CASE UNCHANGED inboundVars
    BY <2>5 DEF inboundVars
  <2> QED BY <2>1, <2>2, <2>3, <2>4, <2>5 DEF InboundNext
<1> QED BY <1>1, <1>2, PTL DEF InboundSpec, Spec

\* From the platform to the agent no receipt is lost, and the pull cursor moves back
\* only to what is committed.
THEOREM CursorsKeepTheirPromises ==
  InboundSpec => [](CursorTypeOK /\ ReceiptsTracked) /\ RewindsToCommitted
BY InboundIsAChat, CursorTypesHold, ReceiptsAreTracked, CursorsRewindToCommitted, PTL
=============================================================================
