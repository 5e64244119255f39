---------------------------- MODULE ServiceCalls ----------------------------
(***************************************************************************)
(* What ROS2Manager promises to whoever calls a service through it: calls  *)
(* are served one at a time in the order they were made, each one is       *)
(* answered at most once, a call is refused only after the manager was     *)
(* told to stop, and a call that was taken stays unanswered only when the  *)
(* manager quits with the call still waiting.                              *)
(***************************************************************************)
EXTENDS Sequences

CONSTANTS
  Calls,      \* the calls a client may make, each at most once
  NoCall      \* nothing is being served

VARIABLES
  open,       \* new calls are taken
  waiting,    \* the calls taken and not served yet, oldest first
  serving,    \* the call being served
  fate        \* what became of each call

vars == <<open, waiting, serving, fate>>

Settle(c, f) == fate' = [fate EXCEPT ![c] = f]

Init ==
  /\ open = TRUE
  /\ waiting = << >>
  /\ serving = NoCall
  /\ fate = [c \in Calls |-> "unused"]

Submit(c) ==
  /\ open /\ fate[c] = "unused"
  /\ waiting' = Append(waiting, c)
  /\ Settle(c, "pending")
  /\ UNCHANGED <<open, serving>>

Refuse(c) ==
  /\ ~open /\ fate[c] = "unused"
  /\ Settle(c, "refused")
  /\ UNCHANGED <<open, waiting, serving>>

Serve ==
  /\ serving = NoCall /\ waiting # << >>
  /\ serving' = Head(waiting)
  /\ waiting' = Tail(waiting)
  /\ UNCHANGED <<open, fate>>

Answer(f) ==
  /\ serving # NoCall /\ fate[serving] = "pending"
  /\ Settle(serving, f)
  /\ serving' = NoCall
  /\ UNCHANGED <<open, waiting>>

Close ==
  /\ open' = FALSE
  /\ UNCHANGED <<waiting, serving, fate>>

Quit ==
  /\ ~open /\ serving = NoCall
  /\ fate' = [c \in Calls |-> IF fate[c] = "pending" THEN "dropped" ELSE fate[c]]
  /\ waiting' = << >>
  /\ UNCHANGED <<open, serving>>

Next ==
  \/ \E c \in Calls : Submit(c) \/ Refuse(c)
  \/ Serve
  \/ \E f \in {"ok", "failed"} : Answer(f)
  \/ Close
  \/ Quit

Spec == Init /\ [][Next]_vars
=============================================================================
