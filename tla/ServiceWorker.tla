---------------------------- MODULE ServiceWorker ----------------------------
(***************************************************************************)
(* The service-call machinery of ROS2Manager (src/ros_manager.cpp): the    *)
(* FIFO of tasks, the one worker thread that runs them, call_service_async *)
(* and execute_service_call, and the start() and stop() that main runs     *)
(* around them.                                                            *)
(*                                                                         *)
(* Threads: main (which is also the UI thread, so that no UI call overlaps *)
(* stop()), the worker, the spin thread.  What happens under queue_mutex_  *)
(* is one action; between two actions any other thread may run.            *)
(*                                                                         *)
(* Requests, replies and error texts are left out: a call ends "ok" or     *)
(* "failed".  A callback may itself make a call (the action client does):  *)
(* that is FollowUp.                                                       *)
(***************************************************************************)
EXTENDS Naturals, Sequences, FiniteSets

CONSTANTS
  Calls,       \* the calls that may be made, each at most once (a bound)
  NoCall,      \* the worker has no task in hand
  MaxPolls,    \* sleeps before a deadline: 2 s / 50 ms and 10 s / 25 ms in the code
  MaxStops     \* how often stop() is called; main calls it twice

ASSUME WorkerAssumption ==
  /\ NoCall \notin Calls
  /\ MaxPolls \in Nat
  /\ MaxStops \in Nat

VARIABLES
  context_ok,       \* rclcpp::ok()
  node,             \* impl_->node_ is set
  connected,        \* connected_
  stop_requested,   \* stop_requested_
  worker_shutdown,  \* worker_shutdown_
  tasks,            \* tasks_, oldest first
  worker,           \* where the worker thread is
  current,          \* the task it took
  polls,            \* sleeps left before the deadline of its poll loop
  success,          \* the outcome it is about to report
  spin,             \* the spin thread
  main,             \* where main is: starting, in the UI, or inside stop()
  stops,            \* calls of stop() that have returned
  issued,           \* calls made so far
  answers,          \* how often the callback of each call was invoked
  outcome           \* with what

ros == <<context_ok, node, connected>>
flags == <<stop_requested, worker_shutdown>>
exec == <<worker, current, polls, success>>
ends == <<answers, outcome>>
vars == <<ros, flags, tasks, exec, spin, main, stops, issued, ends>>

Running == {"start", "avail", "await", "reply"}
Stopping == {"close", "notify", "join", "teardown"}

TypeOK ==
  /\ context_ok \in BOOLEAN /\ node \in BOOLEAN /\ connected \in BOOLEAN
  /\ stop_requested \in BOOLEAN /\ worker_shutdown \in BOOLEAN
  /\ tasks \in Seq(Calls)
  /\ worker \in {"loop", "asleep", "callback", "exited"} \cup Running
  /\ current \in Calls \cup {NoCall}
  /\ polls \in 0..MaxPolls
  /\ success \in BOOLEAN
  /\ spin \in {"none", "spinning", "exited"}
  /\ main \in {"init", "up", "stopped"} \cup Stopping
  /\ stops \in 0..MaxStops
  /\ issued \in SUBSET Calls
  /\ answers \in [Calls -> Nat]
  /\ outcome \in [Calls -> {"none", "ok", "failed", "refused"}]

Init ==
  /\ context_ok = FALSE /\ node = FALSE /\ connected = FALSE
  /\ stop_requested = FALSE /\ worker_shutdown = FALSE
  /\ tasks = << >>
  /\ worker = "loop" /\ current = NoCall /\ polls = 0 /\ success = FALSE
  /\ spin = "none"
  /\ main = "init" /\ stops = 0
  /\ issued = {}
  /\ answers = [c \in Calls |-> 0]
  /\ outcome = [c \in Calls |-> "none"]

Invoke(c, result) ==
  /\ answers' = [answers EXCEPT ![c] = @ + 1]
  /\ outcome' = [outcome EXCEPT ![c] = result]

WakeWorker == worker' = IF worker = "asleep" THEN "loop" ELSE worker

-----------------------------------------------------------------------------
(***************************************************************************)
(* call_service_async: under queue_mutex_, refuse or enqueue and notify.   *)
(***************************************************************************)
Refuse(c) ==
  /\ worker_shutdown \/ stop_requested
  /\ Invoke(c, "refused")
  /\ UNCHANGED <<tasks, worker>>

\* Mutants of Enqueue: the worker is not notified; the newest call goes first.
EnqueueSilently(c) ==
  /\ ~worker_shutdown /\ ~stop_requested
  /\ tasks' = Append(tasks, c)
  /\ UNCHANGED <<worker, answers, outcome>>

EnqueueAtFront(c) ==
  /\ ~worker_shutdown /\ ~stop_requested
  /\ tasks' = <<c>> \o tasks
  /\ WakeWorker
  /\ UNCHANGED ends

Enqueue(c) ==
  /\ ~worker_shutdown /\ ~stop_requested
  /\ tasks' = Append(tasks, c)
  /\ WakeWorker
  /\ UNCHANGED ends

call_service_async(c) ==
  /\ c \in Calls \ issued
  /\ issued' = issued \cup {c}
  /\ Refuse(c) \/ Enqueue(c)
  /\ UNCHANGED <<ros, flags, current, polls, success, spin, main, stops>>

\* A key press in the UI, or a call made by the callback the worker runs.
UiCall(c) == main = "up" /\ call_service_async(c)
FollowUp(c) == worker = "callback" /\ call_service_async(c)

-----------------------------------------------------------------------------
(***************************************************************************)
(* worker_loop                                                             *)
(***************************************************************************)
WorkerSleeps ==
  /\ worker = "loop" /\ ~worker_shutdown /\ tasks = << >>
  /\ worker' = "asleep"
  /\ UNCHANGED <<ros, flags, tasks, current, polls, success, spin, main, stops, issued, ends>>

\* A condition variable may also wake up without a notification.
WorkerWakesSpuriously ==
  /\ worker = "asleep"
  /\ worker' = "loop"
  /\ UNCHANGED <<ros, flags, tasks, current, polls, success, spin, main, stops, issued, ends>>

WorkerExits ==
  /\ worker = "loop" /\ worker_shutdown
  /\ worker' = "exited"
  /\ UNCHANGED <<ros, flags, tasks, current, polls, success, spin, main, stops, issued, ends>>

\* Mutant of WorkerTakes: the task is copied but stays in the queue.
WorkerPeeks ==
  /\ worker = "loop" /\ ~worker_shutdown /\ tasks # << >>
  /\ worker' = "start"
  /\ current' = Head(tasks)
  /\ UNCHANGED <<ros, flags, tasks, polls, success, spin, main, stops, issued, ends>>

WorkerTakes ==
  /\ worker = "loop" /\ ~worker_shutdown /\ tasks # << >>
  /\ worker' = "start"
  /\ current' = Head(tasks)
  /\ tasks' = Tail(tasks)
  /\ UNCHANGED <<ros, flags, polls, success, spin, main, stops, issued, ends>>

(***************************************************************************)
(* execute_service_call.  Report(s) is "leave with outcome s".             *)
(***************************************************************************)
Report(s) ==
  /\ worker' = "reply"
  /\ success' = s
  /\ polls' = 0

\* Shutting down, or no node; or: no typesupport, bad JSON, no client.
ExecFailsEarly ==
  /\ worker = "start"
  /\ Report(FALSE)
  /\ UNCHANGED <<ros, flags, tasks, current, spin, main, stops, issued, ends>>

ExecLooksForServer ==
  /\ worker = "start"
  /\ context_ok /\ ~stop_requested /\ node
  /\ worker' = "avail" /\ polls' = MaxPolls
  /\ UNCHANGED <<ros, flags, tasks, current, success, spin, main, stops, issued, ends>>

\* Not there yet, or (second loop) no response yet: sleep and look again.
\* Mutant of ExecPolls: without the deadline.
ExecPollsForever ==
  /\ worker \in {"avail", "await"}
  /\ context_ok /\ ~stop_requested
  /\ polls' = polls - 1
  /\ UNCHANGED <<ros, flags, tasks, worker, current, success, spin, main, stops, issued, ends>>

ExecPolls ==
  /\ worker \in {"avail", "await"}
  /\ polls > 0 /\ context_ok /\ ~stop_requested
  /\ polls' = polls - 1
  /\ UNCHANGED <<ros, flags, tasks, worker, current, success, spin, main, stops, issued, ends>>

\* The server is there: build and send the request, then wait for the response.
ExecSends ==
  /\ worker = "avail" /\ polls > 0 /\ context_ok /\ ~stop_requested
  /\ worker' = "await" /\ polls' = MaxPolls
  /\ UNCHANGED <<ros, flags, tasks, current, success, spin, main, stops, issued, ends>>

ExecGetsResponse ==
  /\ worker = "await" /\ polls > 0 /\ context_ok /\ ~stop_requested
  /\ Report(TRUE)
  /\ UNCHANGED <<ros, flags, tasks, current, spin, main, stops, issued, ends>>

\* The deadline passed, the flags went up, or rcl reported an error.
ExecGivesUp ==
  /\ worker \in {"avail", "await"}
  /\ Report(FALSE)
  /\ UNCHANGED <<ros, flags, tasks, current, spin, main, stops, issued, ends>>

ExecReplies ==
  /\ worker = "reply"
  /\ worker' = "callback"
  /\ Invoke(current, IF success THEN "ok" ELSE "failed")
  /\ UNCHANGED <<ros, flags, tasks, current, polls, success, spin, main, stops, issued>>

CallbackReturns ==
  /\ worker = "callback"
  /\ worker' = "loop" /\ current' = NoCall
  /\ UNCHANGED <<ros, flags, tasks, polls, success, spin, main, stops, issued, ends>>

Worker ==
  \/ WorkerSleeps \/ WorkerExits \/ WorkerTakes
  \/ ExecFailsEarly \/ ExecLooksForServer \/ ExecPolls \/ ExecSends
  \/ ExecGetsResponse \/ ExecGivesUp \/ ExecReplies \/ CallbackReturns

-----------------------------------------------------------------------------
(***************************************************************************)
(* start(), once, before the UI runs.  An exception may strike before the  *)
(* node exists, before connected_ is set, or when the thread is created.   *)
(***************************************************************************)
Start ==
  /\ main = "init"
  /\ main' = "up"
  /\ context_ok' = TRUE /\ node' = TRUE /\ connected' = TRUE
  /\ stop_requested' = FALSE
  /\ spin' = "spinning"
  /\ UNCHANGED <<worker_shutdown, tasks, exec, stops, issued, ends>>

StartFails ==
  /\ main = "init"
  /\ main' = "up"
  /\ context_ok' \in BOOLEAN /\ node' \in BOOLEAN /\ connected' \in BOOLEAN
  /\ (node' => context_ok') /\ (connected' => node')
  /\ UNCHANGED <<flags, tasks, exec, spin, stops, issued, ends>>

SpinExits ==
  /\ spin = "spinning" /\ (stop_requested \/ ~context_ok)
  /\ spin' = "exited"
  /\ UNCHANGED <<ros, flags, tasks, exec, main, stops, issued, ends>>

\* rclcpp's own SIGINT handler takes the context down at any moment.
ContextGoesDown ==
  /\ context_ok
  /\ context_ok' = FALSE
  /\ UNCHANGED <<node, connected, flags, tasks, exec, spin, main, stops, issued, ends>>

(***************************************************************************)
(* stop(), statement by statement.                                         *)
(***************************************************************************)
StopRequest ==
  /\ main \in {"up", "stopped"} /\ stops < MaxStops
  /\ stop_requested' = TRUE
  /\ main' = "close"
  /\ UNCHANGED <<ros, worker_shutdown, tasks, exec, spin, stops, issued, ends>>

StopCloses ==
  /\ main = "close"
  /\ worker_shutdown' = TRUE
  /\ main' = "notify"
  /\ UNCHANGED <<ros, stop_requested, tasks, exec, spin, stops, issued, ends>>

\* Mutant of StopNotifies: the flag is set but the worker is not woken.
StopForgetsNotify ==
  /\ main = "notify"
  /\ main' = "join"
  /\ UNCHANGED <<ros, flags, tasks, exec, spin, stops, issued, ends>>

StopNotifies ==
  /\ main = "notify"
  /\ WakeWorker
  /\ main' = "join"
  /\ UNCHANGED <<ros, flags, tasks, current, polls, success, spin, stops, issued, ends>>

\* Mutant of StopJoinsWorker: the worker is left running.
StopDetachesWorker ==
  /\ main = "join"
  /\ main' = IF connected THEN "teardown" ELSE "stopped"
  /\ stops' = IF connected THEN stops ELSE stops + 1
  /\ UNCHANGED <<ros, flags, tasks, exec, spin, issued, ends>>

StopJoinsWorker ==
  /\ main = "join" /\ worker = "exited"
  /\ main' = IF connected THEN "teardown" ELSE "stopped"
  /\ stops' = IF connected THEN stops ELSE stops + 1
  /\ UNCHANGED <<ros, flags, tasks, exec, spin, issued, ends>>

StopTearsDown ==
  /\ main = "teardown" /\ spin # "spinning"
  /\ node' = FALSE /\ connected' = FALSE /\ context_ok' = FALSE
  /\ main' = "stopped" /\ stops' = stops + 1
  /\ UNCHANGED <<flags, tasks, exec, spin, issued, ends>>

StopGoesOn == StopCloses \/ StopNotifies \/ StopJoinsWorker \/ StopTearsDown

-----------------------------------------------------------------------------
Next ==
  \/ \E c \in Calls : UiCall(c) \/ FollowUp(c)
  \/ Worker \/ WorkerWakesSpuriously
  \/ Start \/ StartFails \/ StopRequest \/ StopGoesOn
  \/ SpinExits \/ ContextGoesDown

(***************************************************************************)
(* The three threads keep running; the user, the servers, the signal and   *)
(* spurious wakeups owe nothing.  The deadlines make every poll loop of    *)
(* the worker end, and a callback returns.                                 *)
(***************************************************************************)
Fairness ==
  /\ WF_vars(Worker)
  /\ WF_vars(SpinExits)
  /\ WF_vars(StopGoesOn)

Spec == Init /\ [][Next]_vars
FairSpec == Spec /\ Fairness

-----------------------------------------------------------------------------
(***************************************************************************)
(* Safety.                                                                 *)
(***************************************************************************)

(* No call is answered twice, whether it is served, refused while the      *)
(* manager stops, or made by another call's callback.                      *)
AtMostOnce == \A c \in Calls : answers[c] <= 1

(* A call that waits for its server or its response still has the node its *)
(* client was made on: stop() resets the node only after the worker is     *)
(* gone (ros_manager.cpp:1170-1179, 149-158).                              *)
NodeOutlivesCalls == worker \in {"avail", "await"} => node

(* Once stop() has returned no callback runs any more.  main relies on it: *)
(* the objects the callbacks write to are destroyed next (main.cpp:48-51). *)
NoCallbackAfterStop == [][main = "stopped" => UNCHANGED ends]_vars

(* First in, first out, one at a time; refused only while stopping; lost   *)
(* only by quitting.                                                       *)
FateOf(c) ==
  CASE c \notin issued -> "unused"
    [] c \in issued /\ answers[c] = 0 ->
         IF worker = "exited" THEN "dropped" ELSE "pending"
    [] c \in issued /\ answers[c] = 1 -> outcome[c]
    [] OTHER -> "answered twice"

Fate == [c \in Calls |-> FateOf(c)]

Promise ==
  INSTANCE ServiceCalls
    WITH open <- ~stop_requested /\ ~worker_shutdown,
         waiting <- IF worker = "exited" THEN << >> ELSE tasks,
         serving <- IF worker \in Running THEN current ELSE NoCall,
         fate <- Fate

ImplementsServiceCalls == Promise!Spec

(***************************************************************************)
(* Liveness, under FairSpec.                                               *)
(***************************************************************************)

(* Every call is answered, unless the worker quits first: no wakeup of the *)
(* worker is lost and no earlier call blocks the queue for ever.           *)
CallsSettle ==
  \A c \in Calls : c \in issued ~> (answers[c] > 0 \/ worker = "exited")

(* stop() returns: it waits for a worker that it woke and that gives up    *)
(* what it is doing, and for a spin thread that watches the same flag.     *)
StopReturns == main \in Stopping ~> main = "stopped"
=============================================================================
