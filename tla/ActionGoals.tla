---------------------------- MODULE ActionGoals ----------------------------
(***************************************************************************)
(* What ROS2Manager promises about the goals that are sent through it: the *)
(* user is told of each one once, after it was sent; he is told that       *)
(* something failed, which may be said of any goal, or else what the       *)
(* server has made of this goal, for good; and no goal is canceled before  *)
(* somebody asked for a cancel.                                            *)
(***************************************************************************)
EXTENDS Naturals

CONSTANTS
  Goals,
  Ends       \* the ways in which a goal ends by itself

VARIABLES
  sent,      \* the goals sent
  told,      \* how often the user was told of each goal
  verdict,   \* what he was told
  fate,      \* what the server has made of each goal
  asked      \* somebody asked for a cancel

vars == <<sent, told, verdict, fate, asked>>

Init ==
  /\ sent = {} /\ asked = FALSE
  /\ told = [g \in Goals |-> 0]
  /\ verdict = [g \in Goals |-> "none"]
  /\ fate = [g \in Goals |-> "unknown"]

Send(g) ==
  /\ g \notin sent
  /\ sent' = sent \cup {g}
  /\ UNCHANGED <<told, verdict, fate, asked>>

Judge(g) ==
  /\ g \in sent /\ fate[g] = "unknown"
  /\ \E f \in {"executing", "rejected"} : fate' = [fate EXCEPT ![g] = f]
  /\ UNCHANGED <<sent, told, verdict, asked>>

Finish(g) ==
  /\ fate[g] = "executing"
  /\ \E f \in Ends : fate' = [fate EXCEPT ![g] = f]
  /\ UNCHANGED <<sent, told, verdict, asked>>

AskCancel ==
  /\ asked' = TRUE
  /\ UNCHANGED <<sent, told, verdict, fate>>

\* The server may follow a cancel for any goals, or for none.
Cancel(gs) ==
  /\ asked /\ \A g \in gs : fate[g] = "executing"
  /\ fate' = [g \in Goals |-> IF g \in gs THEN "canceled" ELSE fate[g]]
  /\ UNCHANGED <<sent, told, verdict, asked>>

\* A result that does not parse is still the result of a goal that is over.
MayBeSaid(v, g) ==
  \/ v = "failed"
  \/ v = fate[g] /\ v \in Ends \cup {"canceled", "rejected"}
  \/ v = "unreadable" /\ fate[g] \in Ends \cup {"canceled"}

Tell(g, v) ==
  /\ g \in sent /\ told[g] = 0 /\ MayBeSaid(v, g)
  /\ told' = [told EXCEPT ![g] = 1]
  /\ verdict' = [verdict EXCEPT ![g] = v]
  /\ UNCHANGED <<sent, fate, asked>>

Verdicts == {"failed", "rejected", "unreadable", "canceled"} \cup Ends

Next ==
  \/ \E g \in Goals : Send(g) \/ Judge(g) \/ Finish(g) \/ \E v \in Verdicts : Tell(g, v)
  \/ AskCancel
  \/ \E gs \in SUBSET Goals : Cancel(gs)

Spec == Init /\ [][Next]_vars
=============================================================================
