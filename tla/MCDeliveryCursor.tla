-------------------------- MODULE MCDeliveryCursor --------------------------
(* DeliveryCursor for TLC.  A run checks several scenes: the messages that      *)
(* arrive (those behind them do not) and, per kind of event, how many there are. *)
EXTENDS DeliveryCursor, TLC

Kinds == {"fail", "giveup", "stop", "crash", "refuse", "drop", "deny", "rebind",
          "interrupt", "cancel", "leave",
          "lapse", "throw", "reject", "uncertain", "lost", "card", "pause", "unbind", "close"}

\* What a scene allows of each kind; kinds that are not named do not occur.
Allow(part) == [k \in Kinds |-> IF k \in DOMAIN part THEN part[k] ELSE 0]

Scene(msgs, calm, part) == [msgs |-> msgs, calm |-> calm, budget |-> Allow(part)]

\* Everything before is over or in the hands of the runner.
Calm == Visible \ handled \subseteq 1..pull

CONSTANT Scenes

VARIABLES scene, spent

Spend(k) == spent[k] < scene.budget[k] /\ spent' = [spent EXCEPT ![k] = @ + 1]
SpendIf(k, condition) == IF condition THEN Spend(k) ELSE UNCHANGED spent

MCInit ==
    /\ Init
    /\ scene \in Scenes
    /\ spent = Allow(<<>>)

\* Rows arrive in their order.
MCChat ==
    \/ \E m \in scene.msgs :
        \/ /\ (IsNext(m) /\ StoreFromChannel(m)) \/ WebQueues(m) \/ WebInjects(m)
           /\ m \in scene.calm => Calm
           /\ UNCHANGED spent
        \/ WebIsRefused(m) /\ SpendIf("refuse", Injectable(m))
        \/ WebAnswers(m) /\ SpendIf("drop", ~(m \in Commands /\ runner = "idle"))
        \/ (FollowUpInjects(m) \/ FollowUpAnswered(m) \/ FollowUpIsGone(m))
           /\ UNCHANGED spent
        \/ FollowUpIsRefused(m) /\ SpendIf("refuse", Injectable(m))
        \/ FollowUpFails(m) /\ Spend("refuse")
        \/ CancelFollowUp(m) /\ Spend("cancel")
    \/ (PollReads \/ PollTakesUp \/ PollInjects \/ PollAnswered) /\ UNCHANGED spent
    \/ PollDrops /\ Spend("drop")
    \/ PollRestartsRunner /\ Spend("rebind")
    \/ PollIsRefused
       /\ SpendIf("refuse", \A m \in batch["loop"] : IsLast(m, batch["loop"]) => Injectable(m))
    \/ (\E who \in Readers : ReplyAcked(who)) /\ UNCHANGED spent
    \/ ReplyRefused /\ Spend("refuse")
    \/ (ColdStart \/ Launch \/ ColdAnswers) /\ UNCHANGED spent
    \/ (RunnerExits \/ InterruptedExits) /\ SpendIf("leave", runner = "reserved")
    \/ (Accept \/ TurnEnds \/ ReplyCommits \/ InterruptCommits \/ FollowUpTimer) /\ UNCHANGED spent
    \/ ReplyIsLost /\ Spend("refuse")
    \/ Interrupt /\ Spend("interrupt")
    \/ RunGivesUp /\ Spend("giveup")
    \/ ColdDrops /\ Spend("deny")
    \/ RunFails /\ Spend("fail")
    \/ StopGroup /\ Spend("stop")

MCNext ==
    /\ UNCHANGED scene
    /\ MCChat \/ (Restart /\ Spend("crash"))

MCSpec == MCInit /\ [][MCNext]_<<vars, scene, spent>>
MCFairSpec == MCSpec /\ CursorFairness

\* Places 3, 4, 5: prompts of an IM chat; 2, 6, 7, 8: commands in it; 9, 10, 12 and
\* the command 11: Web messages.
MCScenes == {
    Scene({3, 4, 5}, {}, [crash |-> 1, interrupt |-> 1]),
    Scene({3, 4}, {}, [fail |-> 1, crash |-> 1, refuse |-> 1, interrupt |-> 1]),
    Scene({3, 4}, {}, [fail |-> 1, stop |-> 1, giveup |-> 1, deny |-> 1, rebind |-> 1]),
    Scene({3}, {}, [drop |-> 1, fail |-> 1, crash |-> 1, deny |-> 1]),
    Scene({2, 3}, {}, [fail |-> 1, crash |-> 1, refuse |-> 1, interrupt |-> 1, stop |-> 1]),
    Scene({6, 7, 8}, {}, [fail |-> 1, crash |-> 1, refuse |-> 1]),
    Scene({3, 4, 6}, {6}, [rebind |-> 1]),
    Scene({3, 4, 5, 6}, {6}, <<>>),
    Scene({3, 6, 7, 8}, {6, 7, 8}, [stop |-> 1]),
    Scene({9, 10, 12}, {}, [crash |-> 1, interrupt |-> 1, cancel |-> 1]),
    Scene({9, 11, 12}, {}, [crash |-> 1, cancel |-> 1]),
    Scene({9, 10}, {}, [refuse |-> 1, crash |-> 1, cancel |-> 1]),
    Scene({9, 10}, {}, [stop |-> 1]),
    Scene({9, 10}, {}, [leave |-> 1, crash |-> 1]),
    Scene({3, 9, 10}, {}, <<>>)}

\* A prompt of an IM chat and a command; nothing fails.
MCMixedScenes == {Scene({3, 6}, {}, <<>>)}
=============================================================================
