---------------------------- MODULE OutputPromise ----------------------------
(***************************************************************************)
(* What the durable outbox promises of one physical output, without rows,  *)
(* leases, processes or requests: it is shown at most once; a verdict is   *)
(* given once and is true, unless an operator gave it after the outcome    *)
(* was lost; an output whose failure was recorded is never shown later.    *)
(***************************************************************************)
EXTENDS Naturals

CONSTANT Outputs

VARIABLES
  visible,   \* visible[o]: how often the user was shown the output
  verdict,   \* verdict[o]: what the ledger says of it
  overruled  \* the outputs whose verdict an operator gave

promiseVars == <<visible, verdict, overruled>>

Init ==
  /\ visible = [o \in Outputs |-> 0]
  /\ verdict = [o \in Outputs |-> "open"]
  /\ overruled = {}

\* The provider shows the output: once, and not after a verdict of the ledger.
Show(o) ==
  /\ visible[o] = 0
  /\ verdict[o] \in {"open", "unknown"} \/ o \in overruled
  /\ visible' = [visible EXCEPT ![o] = 1]
  /\ UNCHANGED <<verdict, overruled>>

Confirm(o) ==
  /\ verdict[o] = "open" /\ visible[o] = 1
  /\ verdict' = [verdict EXCEPT ![o] = "delivered"]
  /\ UNCHANGED <<visible, overruled>>

GiveUp(o) ==
  /\ verdict[o] = "open" /\ visible[o] = 0
  /\ verdict' = [verdict EXCEPT ![o] = "failed"]
  /\ UNCHANGED <<visible, overruled>>

\* The outcome of outputs is lost; a restart can fence several at once.
LoseTrack ==
  /\ \E lost \in SUBSET {o \in Outputs : verdict[o] = "open"} :
       verdict' = [o \in Outputs |-> IF o \in lost THEN "unknown" ELSE verdict[o]]
  /\ UNCHANGED <<visible, overruled>>

Overrule(o, v) ==
  /\ verdict[o] = "unknown"
  /\ verdict' = [verdict EXCEPT ![o] = v]
  /\ overruled' = overruled \cup {o}
  /\ UNCHANGED visible

Next ==
  \/ LoseTrack
  \/ \E o \in Outputs :
       \/ Show(o)
       \/ Confirm(o)
       \/ GiveUp(o)
       \/ \E v \in {"delivered", "failed"} : Overrule(o, v)

Spec == Init /\ [][Next]_promiseVars
=============================================================================
