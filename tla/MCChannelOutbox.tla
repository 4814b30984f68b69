--------------------------- MODULE MCChannelOutbox ---------------------------
(* ChannelOutbox for TLC: two rows of one turn, two processes, two calls.    *)
EXTENDS ChannelOutbox, TLC

CONSTANTS text, file, t1, a, b, c1, c2, sender

MCTurnOf     == [r \in Rows |-> t1]
MCInstanceOf == c1 :> a @@ c2 :> b
MCOwnerOf    == [c \in Calls |-> sender]
=============================================================================
