---------------------------- MODULE ActionClient ----------------------------
(***************************************************************************)
(* send_action_goal_async and cancel_action_goal_async                     *)
(* (src/ros_manager.cpp), run by the UI thread, and the callbacks they     *)
(* leave with the service worker.  A goal is two service calls, send_goal  *)
(* and then get_result, made one from the callback of the other; a cancel  *)
(* is one call.  All of them pass through the one worker of ServiceWorker, *)
(* whose variables and actions this module takes over.                     *)
(*                                                                         *)
(* The UI thread and the worker share active_action_goals_ (under          *)
(* active_goals_mutex_) and subscriptions_ (under mutex_); each access is  *)
(* a step of its own.  The action server is external: it answers requests  *)
(* that reached it, late or never.  A goal stands for its uuid.            *)
(***************************************************************************)
EXTENDS Naturals, Sequences, FiniteSets

CONSTANTS
  MaxGoals,      \* goals that may be sent (a bound)
  Cancels,       \* the cancel requests that may be made, each once (a bound)
  Actions,       \* action names
  NoGoal,        \* no goal, no entry
  NoAction,      \* not sent anywhere yet
  AllGoals,      \* the all-zero uuid, "every goal" to an action server
  Ends,          \* the ways in which a goal ends by itself
  NoCall, MaxPolls, MaxStops    \* as in ServiceWorker

\* The n-th goal sent stands for its random uuid.
Goals == 1..MaxGoals

\* A call carries the goal or cancel it is made for and the uuid in its request.
Calls ==
  { [kind |-> "send", of |-> g, uuid |-> g] : g \in Goals }
    \cup [kind : {"result"}, of : Goals, uuid : Goals]
    \cup [kind : {"cancel"}, of : Cancels, uuid : Goals \cup {AllGoals}]

ASSUME ActionAssumption ==
  /\ MaxGoals \in Nat
  /\ NoGoal \notin Goals /\ AllGoals \notin Goals /\ NoGoal # AllGoals
  /\ NoAction \notin Actions
  /\ Ends \subseteq {"succeeded", "aborted"}
  /\ NoCall \notin Calls
  /\ MaxPolls \in Nat /\ MaxStops \in Nat

VARIABLES
  context_ok, node, connected, stop_requested, worker_shutdown, tasks,
  worker, current, polls, success, spin, main, stops, issued, answers, outcome

W == INSTANCE ServiceWorker

VARIABLES
  goalAction,    \* the action each goal was sent to
  active,        \* active_action_goals_
  feedback_sub,  \* the goal whose callback the feedback subscription carries
  ui,            \* where the UI thread is in a send or a cancel
  cb,            \* where the worker is in the callback it runs
  reported,      \* how often result_cb of each goal was invoked
  result,        \* with what
  overlapped,    \* a goal was sent to an action that had an unreported one
  requests,      \* requests on their way to the server
  response,      \* the client of the call at hand has a response to take
  goalState      \* the server's side of each goal

service ==
  <<context_ok, node, connected, stop_requested, worker_shutdown, tasks, worker,
    current, polls, success, spin, main, stops, issued, answers, outcome>>
own == <<goalAction, active, feedback_sub, ui, cb, reported, result, overlapped>>
server == <<requests, response, goalState>>
vars == <<service, own, server>>

Idle == [step |-> "idle", of |-> NoGoal, on |-> NoAction, uuid |-> NoGoal]
Final == Ends \cup {"canceled"}

TypeOK ==
  /\ W!TypeOK
  /\ goalAction \in [Goals -> Actions \cup {NoAction}]
  /\ active \in [Actions -> Goals \cup {NoGoal}]
  /\ feedback_sub \in [Actions -> Goals \cup {NoGoal}]
  /\ ui \in [step : {"idle", "subscribe", "enqueue", "cancel"},
             of : Goals \cup Cancels \cup {NoGoal},
             on : Actions \cup {NoAction},
             uuid : Goals \cup {NoGoal, AllGoals}]
  /\ cb \in {"none", "ask", "forget", "unsubscribe", "report", "done"}
  /\ reported \in [Goals -> Nat]
  /\ overlapped \in BOOLEAN
  /\ result \in [Goals -> {"none", "failed", "rejected", "unreadable"} \cup Final]
  /\ requests \in SUBSET Calls /\ response \in BOOLEAN
  /\ goalState \in [Goals -> {"unknown", "rejected", "executing"} \cup Final]

Init ==
  /\ W!Init
  /\ goalAction = [g \in Goals |-> NoAction]
  /\ active = [a \in Actions |-> NoGoal]
  /\ feedback_sub = [a \in Actions |-> NoGoal]
  /\ ui = Idle
  /\ cb = "none"
  /\ reported = [g \in Goals |-> 0]
  /\ result = [g \in Goals |-> "none"]
  /\ overlapped = FALSE
  /\ requests = {} /\ response = FALSE
  /\ goalState = [g \in Goals |-> "unknown"]

\* Sent, and result_cb not invoked yet: all that the user can see.
Unreported(g) == goalAction[g] # NoAction /\ reported[g] = 0

\* ... and no callback is already disposing of it.
Pending(g) == Unreported(g) /\ ~(cb \in {"unsubscribe", "report"} /\ current.of = g)
PendingOn(a) == { g \in Goals : goalAction[g] = a /\ Pending(g) }

-----------------------------------------------------------------------------
(***************************************************************************)
(* send_action_goal_async: remember the uuid, subscribe to the feedback    *)
(* topic, hand the send_goal call to the worker.                           *)
(***************************************************************************)
IsNext(g) == goalAction[g] = NoAction /\ \A h \in 1..(g - 1) : goalAction[h] # NoAction

\* Mutant of SendRemembers: the uuid of the goal is not kept.
SendForgets(g, a) ==
  /\ main = "up" /\ ui = Idle
  /\ IsNext(g)
  /\ overlapped' = (overlapped \/ \E h \in Goals : goalAction[h] = a /\ Unreported(h))
  /\ goalAction' = [goalAction EXCEPT ![g] = a]
  /\ ui' = [step |-> "subscribe", of |-> g, on |-> a, uuid |-> g]
  /\ UNCHANGED <<service, active, feedback_sub, cb, reported, result, server>>

SendRemembers(g, a) ==
  /\ main = "up" /\ ui = Idle
  /\ IsNext(g)
  /\ overlapped' = (overlapped \/ \E h \in Goals : goalAction[h] = a /\ Unreported(h))
  /\ goalAction' = [goalAction EXCEPT ![g] = a]
  /\ active' = [active EXCEPT ![a] = g]
  /\ ui' = [step |-> "subscribe", of |-> g, on |-> a, uuid |-> g]
  /\ UNCHANGED <<service, feedback_sub, cb, reported, result, server>>

\* subscribe_topic leaves an existing subscription, and its callback, alone;
\* without a node or when rclcpp throws it returns false, which is ignored.
SendSubscribes ==
  /\ ui.step = "subscribe"
  /\ \/ /\ connected /\ node /\ feedback_sub[ui.on] = NoGoal
        /\ feedback_sub' = [feedback_sub EXCEPT ![ui.on] = ui.of]
     \/ UNCHANGED feedback_sub
  /\ ui' = [ui EXCEPT !.step = "enqueue"]
  /\ UNCHANGED <<service, goalAction, active, cb, reported, result, overlapped, server>>

SendEnqueues ==
  /\ ui.step = "enqueue"
  /\ W!UiCall([kind |-> "send", of |-> ui.of, uuid |-> ui.uuid])
  /\ ui' = Idle
  /\ UNCHANGED <<goalAction, active, feedback_sub, cb, reported, result, overlapped, server>>

(***************************************************************************)
(* cancel_action_goal_async: look the uuid up, then hand the call over.    *)
(***************************************************************************)
CancelLooksUp(k, a) ==
  /\ main = "up" /\ ui = Idle
  /\ \A c \in issued : c.of # k
  /\ ui' = [step |-> "cancel", of |-> k, on |-> a,
            uuid |-> IF active[a] = NoGoal THEN AllGoals ELSE active[a]]
  /\ UNCHANGED <<service, goalAction, active, feedback_sub, cb, reported, result, overlapped, server>>

CancelEnqueues ==
  /\ ui.step = "cancel"
  /\ W!UiCall([kind |-> "cancel", of |-> ui.of, uuid |-> ui.uuid])
  /\ ui' = Idle
  /\ UNCHANGED <<goalAction, active, feedback_sub, cb, reported, result, overlapped, server>>

Ui ==
  \/ \E a \in Actions : \/ \E g \in Goals : SendRemembers(g, a)
                        \/ \E k \in Cancels : CancelLooksUp(k, a)
  \/ SendSubscribes \/ SendEnqueues \/ CancelEnqueues

-----------------------------------------------------------------------------
(***************************************************************************)
(* The worker, as in ServiceWorker: a request reaches the server, and a    *)
(* response can be taken only when the server has given it and while its   *)
(* client, which dies with the call, is there.  The sleeps of the two poll *)
(* loops are left to ServiceWorker: they change only the time left.        *)
(***************************************************************************)
WorkerWorks ==
  /\ \/ W!WorkerSleeps \/ W!WorkerExits \/ W!WorkerTakes
     \/ W!ExecFailsEarly \/ W!ExecLooksForServer
  /\ UNCHANGED <<own, server>>

WorkerSends ==
  /\ W!ExecSends
  /\ requests' = requests \cup {current}
  /\ UNCHANGED <<own, response, goalState>>

WorkerGetsResponse ==
  /\ response /\ W!ExecGetsResponse
  /\ response' = FALSE
  /\ UNCHANGED <<own, requests, goalState>>

WorkerGivesUp ==
  /\ W!ExecGivesUp
  /\ response' = FALSE
  /\ UNCHANGED <<own, requests, goalState>>

\* The callback of the call at hand starts.  Mutants: a rejected goal is
\* reported at once; a goal whose send_goal call failed is never reported.
FirstStepSkipsCleanup ==
  CASE current.kind = "cancel" -> "done"
    [] current.kind = "send" /\ success /\ goalState[current.uuid] # "rejected" -> "ask"
    [] current.kind = "send" /\ success /\ goalState[current.uuid] = "rejected" -> "report"
    [] OTHER -> "forget"

FirstStepDropsFailure ==
  CASE current.kind = "cancel" \/ (current.kind = "send" /\ ~success) -> "done"
    [] current.kind = "send" /\ success /\ goalState[current.uuid] # "rejected" -> "ask"
    [] OTHER -> "forget"

FirstCallbackStep ==
  CASE current.kind = "cancel" -> "done"
    [] current.kind = "send" /\ success /\ goalState[current.uuid] # "rejected" -> "ask"
    [] OTHER -> "forget"

WorkerReplies ==
  /\ W!ExecReplies
  /\ cb' = FirstCallbackStep
  /\ UNCHANGED <<goalAction, active, feedback_sub, ui, reported, result, overlapped, server>>

\* Accepted: ask for the result.  While stopping the call is refused, and its
\* callback runs at once.
\* Mutant of ResultCall: the uuid is looked up again, by action name.
ResultCallByName ==
  [kind |-> "result", of |-> current.of,
   uuid |-> LET latest == active[goalAction[current.of]]
            IN IF latest = NoGoal THEN current.uuid ELSE latest]

ResultCall == [kind |-> "result", of |-> current.of, uuid |-> current.uuid]

CallbackAsks ==
  /\ cb = "ask"
  /\ W!FollowUp(ResultCall)
  /\ cb' = IF outcome'[ResultCall] = "refused" THEN "forget" ELSE "done"
  /\ UNCHANGED <<goalAction, active, feedback_sub, ui, reported, result, overlapped, server>>

\* The goal is over for the client: erase the entry of its action, by name.
CallbackForgets ==
  /\ cb = "forget"
  /\ active' = [active EXCEPT ![goalAction[current.of]] = NoGoal]
  /\ cb' = "unsubscribe"
  /\ UNCHANGED <<service, goalAction, feedback_sub, ui, reported, result, overlapped, server>>

\* Mutant of CallbackUnsubscribes: the subscription is left in place.
CallbackKeepsSubscription ==
  /\ cb = "unsubscribe"
  /\ cb' = "report"
  /\ UNCHANGED <<service, goalAction, active, feedback_sub, ui, reported, result, overlapped, server>>

CallbackUnsubscribes ==
  /\ cb = "unsubscribe"
  /\ feedback_sub' = [feedback_sub EXCEPT ![goalAction[current.of]] = NoGoal]
  /\ cb' = "report"
  /\ UNCHANGED <<service, goalAction, active, ui, reported, result, overlapped, server>>

\* What the call at hand has to report: a failed call, a rejection, the
\* status of the goal, or status 0 when the result text does not parse.
\* Mutant of Verdicts: the status is read even when the call failed.
VerdictsUnchecked ==
  IF current.kind = "send" THEN {"failed", goalState[current.uuid]}
  ELSE {goalState[current.uuid], "unreadable"}

Verdicts ==
  CASE ~success -> {"failed"}
    [] current.kind = "send" /\ success ->
         {IF goalState[current.uuid] = "rejected" THEN "rejected" ELSE "failed"}
    [] OTHER -> {goalState[current.uuid], "unreadable"}

CallbackReports ==
  /\ cb = "report"
  /\ reported' = [reported EXCEPT ![current.of] = @ + 1]
  /\ \E v \in Verdicts : result' = [result EXCEPT ![current.of] = v]
  /\ cb' = "done"
  /\ UNCHANGED <<service, goalAction, active, feedback_sub, ui, overlapped, server>>

CallbackEnds ==
  /\ cb = "done"
  /\ W!CallbackReturns
  /\ cb' = "none"
  /\ UNCHANGED <<goalAction, active, feedback_sub, ui, reported, result, overlapped, server>>

Worker ==
  \/ WorkerWorks \/ WorkerSends \/ WorkerGetsResponse \/ WorkerGivesUp
  \/ WorkerReplies
  \/ CallbackAsks \/ CallbackForgets \/ CallbackUnsubscribes
  \/ CallbackReports \/ CallbackEnds

-----------------------------------------------------------------------------
(***************************************************************************)
(* start() and stop(), on the thread of the UI, and the spin thread that   *)
(* is told to end.  What is not of the UI's making is in the run of        *)
(* ServiceWorker and not here: starts that fail, wake-ups without a cause, *)
(* and the signal handler of rclcpp, which shuts the context down.         *)
(***************************************************************************)
MainAndSpin ==
  /\ \/ ui = Idle /\ (W!Start \/ W!StopRequest)
     \/ W!StopGoesOn \/ W!SpinExits
  /\ UNCHANGED <<own, server>>

-----------------------------------------------------------------------------
(***************************************************************************)
(* The action server (external).  A zero uuid cancels every goal of the    *)
(* action; get_result is answered when the goal is over.                   *)
(***************************************************************************)
Respond(c) ==
  /\ requests' = requests \ {c}
  /\ response' = (response \/ (worker = "await" /\ current = c))
  /\ UNCHANGED <<service, own>>

ServerJudges(c) ==
  /\ c.kind = "send"
  /\ \E s \in {"executing", "rejected"} : goalState' = [goalState EXCEPT ![c.uuid] = s]
  /\ Respond(c)

\* Of the goals a cancel is for, a server may cancel some and leave others.
CancelledBy(c) == { g \in Goals : goalState[g] = "executing" /\ c.uuid \in {g, AllGoals} }

ServerCancels(c) ==
  /\ c.kind = "cancel"
  /\ \E gs \in SUBSET CancelledBy(c) :
       goalState' = [g \in Goals |-> IF g \in gs THEN "canceled" ELSE goalState[g]]
  /\ Respond(c)

ServerReturns(c) ==
  /\ c.kind = "result" /\ goalState[c.uuid] \in Final
  /\ Respond(c)
  /\ UNCHANGED goalState

ServerFinishes(g) ==
  /\ goalState[g] = "executing"
  /\ \E s \in Ends : goalState' = [goalState EXCEPT ![g] = s]
  /\ UNCHANGED <<service, own, requests, response>>

Server ==
  \/ \E c \in requests : ServerJudges(c) \/ ServerCancels(c) \/ ServerReturns(c)
  \/ \E g \in Goals : ServerFinishes(g)

Next == Ui \/ Worker \/ MainAndSpin \/ Server

(***************************************************************************)
(* The program's threads keep running; the user's choices and the server   *)
(* owe nothing.                                                            *)
(***************************************************************************)
Fairness ==
  /\ WF_vars(Worker)
  /\ WF_vars(SendSubscribes \/ SendEnqueues \/ CancelEnqueues)

Spec == Init /\ [][Next]_vars
FairSpec == Spec /\ Fairness

-----------------------------------------------------------------------------
(***************************************************************************)
(* Safety.                                                                 *)
(***************************************************************************)

(* A goal is reported at most once, whichever of its two calls fails, is   *)
(* refused or times out.                                                   *)
ReportedOnce == \A g \in Goals : reported[g] <= 1

(* A final status shown for a goal is the status of that goal on the       *)
(* server, however many goals of the action overlap.                       *)
ResultsTruthful ==
  \A g \in Goals :
    result[g] \in Final \cup {"rejected"} => result[g] = goalState[g]

(* When the worker has nothing left to do and the UI is not in the middle  *)
(* of a send, no uuid and no feedback subscription is left behind.         *)
NothingLeftBehind ==
  worker \in {"loop", "asleep"} /\ tasks = << >> /\ ui = Idle =>
    \A a \in Actions : active[a] = NoGoal /\ feedback_sub[a] = NoGoal

(* A cancel made while a goal of the action is pending carries the uuid of *)
(* a pending goal, not the zero uuid that cancels everybody's goals.       *)
CancelAimed == PendingOn(ui'.on) # {} => ui'.uuid \in PendingOn(ui'.on)

CancelAimsAtPending ==
  [][ui.step = "idle" /\ ui'.step = "cancel" => CancelAimed]_vars

(* ... as it does as long as no two goals of an action have overlapped.    *)
CancelAimsWithoutOverlap ==
  [][ui.step = "idle" /\ ui'.step = "cancel" /\ ~overlapped => CancelAimed]_vars

(* Whatever fails, is refused, times out or comes late: the client keeps   *)
(* what ActionGoals promises.  Each goal is reported once, with a failure  *)
(* or with what the server has made of this very goal, however many goals  *)
(* of the action overlap (ros_manager.cpp:936-1011), and none is canceled  *)
(* by a client that was not asked to.                                      *)
CancelsAsked == \E c \in issued : c.kind = "cancel"

Promise ==
  INSTANCE ActionGoals WITH
    sent <- { g \in Goals : goalAction[g] # NoAction },
    told <- reported, verdict <- result, fate <- goalState, asked <- CancelsAsked

ImplementsActionGoals == Promise!Spec

(* As long as no two goals of an action have overlapped, the subscription  *)
(* to the feedback topic of a pending goal that executes, if there is one, *)
(* passes on that goal's feedback and not that of a goal sent earlier,     *)
(* whose subscription subscribe_topic would leave in place                 *)
(* (ros_manager.cpp:925-927).                                              *)
FeedbackReachesGoal ==
  \A g \in Goals :
    ~overlapped /\ Pending(g) /\ goalState[g] = "executing" =>
      feedback_sub[goalAction[g]] \in {g, NoGoal}

(***************************************************************************)
(* Liveness, under FairSpec.                                               *)
(***************************************************************************)

(* Every goal that was sent is reported, even when the server never        *)
(* answers, unless the manager stops.                                      *)
GoalsReported ==
  \A g \in Goals : goalAction[g] # NoAction ~> (reported[g] > 0 \/ main # "up")
=============================================================================
