---------------------------- MODULE MCGroupQueue ----------------------------
(* GroupQueue for TLC.  A run checks several scenes: the jids that take part   *)
(* and, per kind of call, how many there are; the other jids stay idle.        *)
EXTENDS GroupQueue, TLC

CONSTANTS c1, c2,      \* chats in containers of two folders
          h1, h2,      \* chats of one folder on the host
          lane, hlane, \* an agent lane of c1 and one of h1
          f1, f2, host, turn, recovery

MCFolder == [j \in Jids |-> IF j \in {h1, h2, hlane} THEN host
                            ELSE IF j = c2 THEN f2 ELSE f1]

Kinds == {"arrival", "stop", "restart", "mutation", "block", "setting", "shutdown"}

\* What a scene allows of each kind; kinds that are not named do not occur.
Allow(part) == [k \in Kinds |-> IF k \in DOMAIN part THEN part[k] ELSE 0]

Scene(jids, limits, part) == [jids |-> jids, limits |-> limits, budget |-> Allow(part)]

CONSTANT Scenes

ASSUME ScenesAssumption == \A s \in Scenes : s.jids \subseteq Jids

MCSafetyScenes == {
    Scene({c1, c2}, 1..2, [arrival |-> 3, stop |-> 1, setting |-> 1, shutdown |-> 1]),
    Scene({h1, h2}, {1}, [arrival |-> 3, stop |-> 1, restart |-> 1]),
    Scene({c1, lane}, {1}, [arrival |-> 3, stop |-> 1, restart |-> 1]),
    Scene({c1, c2}, {1}, [arrival |-> 2, mutation |-> 2, block |-> 1]),
    Scene({h1, hlane}, {1}, [arrival |-> 2, mutation |-> 3])}

\* Two chats compete for one slot; nothing is stopped.
MCLiveScenes == {Scene({c1, c2}, {1}, [arrival |-> 3, restart |-> 1])}

MCStoppedScenes == {Scene({c1, c2}, {1}, [arrival |-> 2, stop |-> 1])}

MCDroppedScenes == {Scene({h1, h2}, {1}, [arrival |-> 1, mutation |-> 2])}

VARIABLES scene, spent

Spend(k) == spent[k] < scene.budget[k] /\ spent' = [spent EXCEPT ![k] = @ + 1]

MCInit ==
    /\ Init
    /\ scene \in Scenes
    /\ maxConcurrentContainers \in scene.limits
    /\ spent = Allow(<<>>)

MCNext ==
    /\ UNCHANGED scene
    /\ \/ \E j \in scene.jids :
           \/ Arrival(j) /\ Spend("arrival")
           \/ (RunnerEnds(j) \/ RunnerReports(j) \/ RetryFires(j)) /\ UNCHANGED spent
           \/ StopGroup(j) /\ Spend("stop")
           \/ StopWindowPasses(Folder[j]) /\ UNCHANGED spent
           \/ (RestartGroup(j) \/ RequestGracefulRestart(j)) /\ Spend("restart")
           \/ /\ \E i \in Jids : RestartLaunches(<<j, i>>) \/ RestartFails(<<j, i>>)
              /\ UNCHANGED spent
           \/ (StopForMutation(j) \/ Pause(Folder[j])) /\ Spend("mutation")
           \/ /\ StopForMutationReturns(j) \/ Resume(Folder[j]) \/ Discard(Folder[j])
              /\ UNCHANGED spent
           \/ BlockForSafety(Folder[j]) /\ Spend("block")
           \/ UnblockForSafety(Folder[j]) /\ UNCHANGED spent
       \/ Settings /\ Spend("setting")
       \/ Shutdown /\ Spend("shutdown")

MCSpec == MCInit /\ [][MCNext]_<<vars, scene, spent>>
MCFairSpec == MCSpec /\ QueueFairness

\* QueuedTasksWait, while nobody has stopped, restarted or paused anything.
QueuedTasksWaitUnstopped ==
    (\A k \in {"stop", "restart", "mutation"} : spent[k] = 0) => QueuedTasksWait
=============================================================================
