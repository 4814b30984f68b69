-------------------------------- MODULE ImChat --------------------------------
(***************************************************************************)
(* The cursors of a chat that lives in an IM channel, under what its        *)
(* surroundings have to keep so that no message is lost: nobody writes from *)
(* the Web page, so there are no follow-ups, and                            *)
(*   - rows are stored in the order of their messages;                      *)
(*   - a command is sent when every prompt before it is over;               *)
(*   - a notice the poller sends arrives, and what it drops has nothing     *)
(*     before it that waits for a cold start;                               *)
(*   - the host does not crash before the first message of a chat is pulled.*)
(* Each is the complement of a way in which DeliveryCursor loses a message. *)
(* Runners fail, stop, are interrupted and restarted as they please.        *)
(***************************************************************************)
EXTENDS DeliveryCursor

\* Messages that are not over.
Waiting == Visible \ handled

ImStores(m) ==
    /\ IsNext(m) /\ StoreFromChannel(m)
    /\ m \in Commands => Waiting \subseteq Commands

ImPollDrops ==
    /\ PollDrops
    /\ \A m \in Waiting \ fresh : m <= pull \/ \A f \in fresh : f < m

PromptPolls == PollReads \/ PollRestartsRunner \/ PollTakesUp \/ PollInjects
               \/ PollIsRefused \/ PollAnswered

ImRestart == Restart /\ (seen > 0 => pull > 0)

ImNext ==
    \/ \E m \in Msgs : ImStores(m)
    \/ PromptPolls \/ ImPollDrops
    \/ Replies \/ Turns \/ Runs
    \/ ImRestart

ImSpec == Init /\ [][ImNext]_vars

\* The same without commands, and with nothing dropped by the poller.
PromptNext ==
    \/ \E m \in Msgs \ Commands : ImStores(m)
    \/ PromptPolls
    \/ Replies \/ Turns \/ Runs
    \/ ImRestart

PromptSpec == Init /\ [][PromptNext]_vars
===============================================================================
