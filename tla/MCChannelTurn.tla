---------------------------- MODULE MCChannelTurn ----------------------------
(* ChannelTurn for TLC, one process.  A run checks several scenes: the turns   *)
(* and executions that take part; the others stay as they are.                 *)
EXTENDS ChannelTurn, TLC

CONSTANTS text, edit, note, plain, carded, later, a, c1, c2, sender, e1, e2

MCTurnOf     == [r \in Rows |-> IF r = note THEN carded ELSE plain]
MCInstanceOf == [c \in Calls |-> a]
MCOwnerOf    == [c \in Calls |-> sender]
MCSymmetry   == Permutations(Calls) \cup Permutations(Execs)

CONSTANT Scenes

\* One turn with outputs, one with a card, each with two executions.
MCSafetyScenes == {[turns |-> {t}, execs |-> Execs] : t \in Turns}

\* One turn with an output; two turns with cards that share an execution.
MCLiveScenes == {[turns |-> {plain}, execs |-> Execs],
                 [turns |-> {carded, later}, execs |-> {e1}]}

VARIABLE scene

InScene ==
  /\ \A t \in Turns \ scene.turns : run'[t] = run[t]
  /\ \A e \in Execs \ scene.execs : exec'[e] = exec[e]

MCInit == TurnInit /\ scene \in Scenes
MCNext == TurnNext /\ InScene /\ UNCHANGED scene

MCSpec     == MCInit /\ [][MCNext]_<<turnVars, scene>>
MCFairSpec == MCSpec /\ TurnFairness
=============================================================================
