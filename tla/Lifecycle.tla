----------------------------- MODULE Lifecycle -----------------------------
(***************************************************************************)
(* main(), run(), the refresh timer and stop(), and every lock the four    *)
(* threads take on the way (src/main.cpp, src/app.cpp,                     *)
(* src/ros_manager.cpp).                                                   *)
(*                                                                         *)
(* A thread is where it is, pc[t], and its place says which locks it       *)
(* holds and which it waits for.  The data behind the locks is left to the *)
(* other modules; here a task of the queue is only of a kind, a            *)
(* subscription only there or not.  ServiceWorker has the wakeups of the   *)
(* worker; here it looks at its queue whenever there is something.         *)
(***************************************************************************)
EXTENDS Naturals, Sequences

CONSTANT MaxTasks    \* calls waiting for the worker (a bound)

ASSUME LifecycleAssumption == MaxTasks \in Nat \ {0}

VARIABLES
  pc,              \* where each thread is
  app,             \* the LazyRTUIApp of main
  screen,          \* the ScreenInteractive, a local of run()
  screen_,         \* the pointer to it is set
  sees,            \* threads that read a screen_ that was set, and will post
  running,         \* refresh_running_
  stop_requested,  \* stop_requested_
  shutdown,        \* worker_shutdown_
  tasks,           \* kinds of the calls in tasks_
  job,             \* kind of the call the worker serves
  subscribed       \* an echo, a goal's feedback

vars == <<pc, app, screen, screen_, sees, running, stop_requested, shutdown,
          tasks, job, subscribed>>

objects == <<app, screen, screen_>>
flags == <<running, stop_requested, shutdown>>
calls == <<tasks, job>>

Threads == {"main", "refresh", "spin", "worker"}
Kinds == {"plain", "send", "result"}

(***************************************************************************)
(* The locks: data_mutex_, the mutex_ of the manager, queue_mutex_,        *)
(* active_goals_mutex_ and refresh_mutex_.  A thread holds a lock as long  *)
(* as it is at one of the places of its section; where it only puts a call *)
(* into the queue, takes one out or closes it, the section is one step.    *)
(* The mutexes of the TF tree, the typesupports and the plugins are left   *)
(* out: a thread takes them alone, and waits for nothing while it has them.*)
(***************************************************************************)
Locks == {"data", "subs", "queue", "goals", "timer"}

\* A call refused while its caller is stopping: the callback runs at once.
InRefusal == {"refused", "refused_forgetting", "refused_forgot",
              "refused_unsubscribing", "refused_unsubscribed", "refused_reporting"}

\* Mutant of UnderTimer: the braces around the flag are gone, so that
\* stop_refresh_timer joins with refresh_mutex_ held.
UnderTimerJoins == {"testing", "dozing", "awake", "lowering", "notify", "join_refresh"}

UnderTimer == {"testing", "dozing", "awake", "lowering"}

Section ==
  [data |-> {"drawing", "refreshing", "toggling", "toggling_sub", "toggled",
             "calling", "sending", "canceling", "delivering", "posting",
             "reporting", "refused_reporting"},
   subs |-> {"toggling_sub", "subscribing", "unsubscribing", "unsubscribing_all",
             "refused_unsubscribing"},
   queue |-> {"asking"} \cup InRefusal,
   goals |-> {"remembering", "looking_up", "forgetting", "refused_forgetting"},
   timer |-> UnderTimer]

\* The places at which a thread waits for a lock.
Waiting ==
  [data |-> {"draw", "refresh", "toggle", "call", "send", "cancel", "deliver",
             "report", "refused_unsubscribed"},
   subs |-> {"toggling", "subscribe", "unsubscribe", "unsubscribe_all",
             "refused_forgot"},
   queue |-> {"idle", "ask", "enqueue_plain", "enqueue_send", "close"},
   goals |-> {"remember", "look_up", "forget", "refused"},
   timer |-> {"lock", "waking", "stop_timer"}]

Free(l) == \A t \in Threads : pc[t] \notin Section[l]

\* Thread t goes from one place to another, when no lock it waits for is held.
CanGo(t, from) ==
  /\ pc[t] = from
  /\ \A l \in Locks : from \in Waiting[l] => Free(l)

Go(t, from, to) ==
  /\ CanGo(t, from)
  /\ pc' = [pc EXCEPT ![t] = to]

-----------------------------------------------------------------------------
(***************************************************************************)
(* Places, and the steps from one to the next that change nothing else.    *)
(***************************************************************************)
\* What the user may do; every key and every redraw starts in the loop.
Commands == {"draw", "refresh", "toggle", "call", "send", "cancel"}

MainPath ==
  { <<"draw", "drawing">>, <<"drawing", "loop">>,
    <<"refresh", "refreshing">>, <<"refreshing", "loop">>,
    <<"toggling_sub", "toggled">>, <<"toggled", "loop">>, <<"toggle", "toggling">>,
    <<"call", "calling">>, <<"calling", "enqueue_plain">>,
    <<"send", "sending">>, <<"sending", "remember">>,
    <<"remember", "remembering">>, <<"remembering", "subscribe">>,
    <<"subscribing", "enqueue_send">>,
    <<"cancel", "canceling">>, <<"canceling", "look_up">>,
    <<"look_up", "looking_up">>, <<"looking_up", "enqueue_plain">>,
    <<"lowering", "notify">> }

RefreshPath ==
  { <<"lock", "testing">>, <<"waking", "awake">>,
    <<"dozing", "asleep">>,             \* the lock is released
    <<"asleep", "waking">>,             \* a timeout, or for no reason
    <<"refresh", "refreshing">>, <<"refreshing", "look">> }

\* The callback of a feedback message posts no event.
SpinPath == { <<"deliver", "delivering">>, <<"delivering", "spinning">> }

\* execute_service_call fails early or waits, with a deadline, and then
\* answers in every case.
WorkerPath ==
  { <<"execute", "answered">>,
    <<"forget", "forgetting">>, <<"forgetting", "unsubscribe">>,
    <<"unsubscribing", "report">>, <<"report", "reporting">>,
    <<"refused", "refused_forgetting">>, <<"refused_forgetting", "refused_forgot">>,
    <<"refused_unsubscribing", "refused_unsubscribed">>,
    <<"refused_unsubscribed", "refused_reporting">> }

Path ==
  [main |-> MainPath, refresh |-> RefreshPath, spin |-> SpinPath, worker |-> WorkerPath]

Follow(t) ==
  /\ \E e \in Path[t] : Go(t, e[1], e[2])
  /\ UNCHANGED <<objects, sees, flags, calls, subscribed>>

Ends(path) == { e[1] : e \in path } \cup { e[2] : e \in path }

Places ==
  [main |-> Ends(MainPath) \cup
            {"start", "check", "construct", "start_timer", "loop", "stop_timer",
             "join_refresh", "clear", "leave", "stop", "close", "join_worker",
             "join_spin", "unsubscribe_all", "unsubscribing_all", "enqueue_send",
             "subscribe", "done"},
   refresh |-> Ends(RefreshPath) \cup {"none", "exited", "repainting"},
   spin |-> Ends(SpinPath) \cup {"none", "exited", "posting"},
   worker |-> Ends(WorkerPath) \cup {"idle", "ask", "asking", "exited"}]

Busy == Places.worker \ {"idle", "exited"}

TypeOK ==
  /\ DOMAIN pc = Threads /\ \A t \in Threads : pc[t] \in Places[t]
  /\ app \in {"none", "alive", "gone"}
  /\ screen \in {"none", "alive", "gone"} /\ screen_ \in BOOLEAN
  /\ sees \in SUBSET {"refresh", "spin"}
  /\ running \in BOOLEAN /\ stop_requested \in BOOLEAN /\ shutdown \in BOOLEAN
  /\ tasks \in Seq(Kinds)
  /\ IF pc["worker"] \in Busy THEN job \in Kinds ELSE job = "none"
  /\ subscribed \in SUBSET {"echo", "feedback"}

Init ==
  /\ pc = [main |-> "start", refresh |-> "none", spin |-> "none", worker |-> "idle"]
  /\ app = "none" /\ screen = "none" /\ screen_ = FALSE
  /\ sees = {}
  /\ running = FALSE /\ stop_requested = FALSE /\ shutdown = FALSE
  /\ tasks = << >> /\ job = "none"
  /\ subscribed = {}

-----------------------------------------------------------------------------
(***************************************************************************)
(* main(), from start() to the end.                                        *)
(***************************************************************************)
\* start() spins, or failed before it did.
Start ==
  /\ pc["main"] = "start"
  /\ \E s \in {"spinning", "none"} :
       pc' = [pc EXCEPT !["main"] = "check", !["spin"] = s]
  /\ UNCHANGED <<objects, sees, flags, calls, subscribed>>

\* A signal that came before skips the application.
ChecksSignal ==
  /\ \/ Go("main", "check", "stop") /\ UNCHANGED app
     \/ Go("main", "check", "construct") /\ app' = "alive"
  /\ UNCHANGED <<screen, screen_, sees, flags, calls, subscribed>>

CreateScreen ==
  /\ Go("main", "construct", "start_timer")
  /\ screen' = "alive" /\ screen_' = TRUE
  /\ UNCHANGED <<app, sees, flags, calls, subscribed>>

\* No thread when the interval of the configuration is not positive.
start_refresh_timer ==
  /\ \/ /\ CanGo("main", "start_timer")
        /\ pc' = [pc EXCEPT !["main"] = "loop", !["refresh"] = "lock"]
        /\ running' = TRUE
     \/ Go("main", "start_timer", "loop") /\ UNCHANGED running
  /\ UNCHANGED <<objects, sees, stop_requested, shutdown, calls, subscribed>>

UserCommands ==
  /\ \E c \in Commands :
       /\ c \in {"call", "send", "cancel"} => Len(tasks) < MaxTasks
       /\ Go("main", "loop", c)
  /\ UNCHANGED <<objects, sees, flags, calls, subscribed>>

\* By key, by button or by a signal that FTXUI handles.
UserQuits ==
  /\ Go("main", "loop", "stop_timer")
  /\ UNCHANGED <<objects, sees, flags, calls, subscribed>>

ToggleSubscribes ==
  /\ Go("main", "toggling", "toggling_sub")
  /\ subscribed' = (subscribed \ {"echo"}) \cup ({"echo"} \ subscribed)
  /\ UNCHANGED <<objects, sees, flags, calls>>

SendSubscribes ==
  /\ Go("main", "subscribe", "subscribing")
  /\ subscribed' = subscribed \cup {"feedback"}
  /\ UNCHANGED <<objects, sees, flags, calls>>

\* The loop runs before stop(): nothing is refused to it.
Enqueue(place, kind) ==
  /\ Go("main", place, "loop")
  /\ tasks' = Append(tasks, kind)
  /\ UNCHANGED <<objects, sees, flags, job, subscribed>>

\* Mutants of LowerFlag: without the lock; the flag stays up.
LowerFlagUnlocked ==
  /\ pc["main"] = "stop_timer"
  /\ pc' = [pc EXCEPT !["main"] = "notify"]
  /\ running' = FALSE
  /\ UNCHANGED <<objects, sees, stop_requested, shutdown, calls, subscribed>>

LowerFlagNever ==
  /\ Go("main", "stop_timer", "lowering")
  /\ UNCHANGED <<objects, sees, flags, calls, subscribed>>

LowerFlag ==
  /\ Go("main", "stop_timer", "lowering")
  /\ running' = FALSE
  /\ UNCHANGED <<objects, sees, stop_requested, shutdown, calls, subscribed>>

NotifyTimer ==
  /\ CanGo("main", "notify")
  /\ pc' = [pc EXCEPT !["main"] = "join_refresh",
                      !["refresh"] = IF @ = "asleep" THEN "waking" ELSE @]
  /\ UNCHANGED <<objects, sees, flags, calls, subscribed>>

\* At the end of run(), and again in the destructor of the application.
JoinRefresh ==
  /\ pc["refresh"] \in {"none", "exited"}
  /\ Go("main", "join_refresh", IF screen = "alive" THEN "clear" ELSE "unsubscribe_all")
  /\ UNCHANGED <<objects, sees, flags, calls, subscribed>>

ClearScreen ==
  /\ Go("main", "clear", "leave")
  /\ screen_' = FALSE
  /\ UNCHANGED <<app, screen, sees, flags, calls, subscribed>>

\* Mutant of LeaveRun: main has no stop() of its own before the destructor.
LeaveRunDestroys ==
  /\ Go("main", "leave", "stop_timer")
  /\ screen' = "gone"
  /\ UNCHANGED <<app, screen_, sees, flags, calls, subscribed>>

LeaveRun ==
  /\ Go("main", "leave", "stop")
  /\ screen' = "gone"
  /\ UNCHANGED <<app, screen_, sees, flags, calls, subscribed>>

RequestStop ==
  /\ Go("main", "stop", "close")
  /\ stop_requested' = TRUE
  /\ UNCHANGED <<objects, sees, running, shutdown, calls, subscribed>>

CloseQueue ==
  /\ Go("main", "close", "join_worker")
  /\ shutdown' = TRUE
  /\ UNCHANGED <<objects, sees, running, stop_requested, calls, subscribed>>

JoinWorker ==
  /\ pc["worker"] = "exited"
  /\ Go("main", "join_worker", "join_spin")
  /\ UNCHANGED <<objects, sees, flags, calls, subscribed>>

\* stop() returns, to the end of the application's life or of the program's.
JoinSpin ==
  /\ pc["spin"] \in {"none", "exited"}
  /\ Go("main", "join_spin", IF app = "alive" THEN "stop_timer" ELSE "done")
  /\ UNCHANGED <<objects, sees, flags, calls, subscribed>>

UnsubscribeAll ==
  /\ Go("main", "unsubscribe_all", "unsubscribing_all")
  /\ subscribed' = subscribed \ {"echo"}
  /\ UNCHANGED <<objects, sees, flags, calls>>

AppDies ==
  /\ Go("main", "unsubscribing_all", "stop")
  /\ app' = "gone"
  /\ UNCHANGED <<screen, screen_, sees, flags, calls, subscribed>>

Main ==
  \/ Start \/ ChecksSignal \/ CreateScreen \/ start_refresh_timer
  \/ Follow("main") \/ ToggleSubscribes \/ SendSubscribes
  \/ Enqueue("enqueue_plain", "plain") \/ Enqueue("enqueue_send", "send")
  \/ LowerFlag \/ NotifyTimer \/ JoinRefresh \/ ClearScreen \/ LeaveRun
  \/ RequestStop \/ CloseQueue \/ JoinWorker \/ JoinSpin \/ UnsubscribeAll \/ AppDies

-----------------------------------------------------------------------------
(***************************************************************************)
(* The refresh thread.  The predicate of wait_for is tested with the lock  *)
(* held, which is given up only by falling asleep.                         *)
(***************************************************************************)
RefreshTests ==
  /\ Go("refresh", "testing", IF running THEN "dozing" ELSE "exited")
  /\ UNCHANGED <<objects, sees, flags, calls, subscribed>>

\* On a timeout it refreshes, after a spurious wakeup it sleeps on.
RefreshAwakes ==
  /\ IF running
     THEN \E p \in {"refresh", "dozing"} : Go("refresh", "awake", p)
     ELSE Go("refresh", "awake", "exited")
  /\ UNCHANGED <<objects, sees, flags, calls, subscribed>>

RefreshLooks ==
  /\ Go("refresh", "look", "repainting")
  /\ sees' = IF screen_ THEN sees \cup {"refresh"} ELSE sees
  /\ UNCHANGED <<objects, flags, calls, subscribed>>

RefreshPosts ==
  /\ Go("refresh", "repainting", "lock")
  /\ sees' = sees \ {"refresh"}
  /\ UNCHANGED <<objects, flags, calls, subscribed>>

Refresh ==
  Follow("refresh") \/ RefreshTests \/ RefreshAwakes \/ RefreshLooks \/ RefreshPosts

-----------------------------------------------------------------------------
(***************************************************************************)
(* The spin thread.                                                        *)
(***************************************************************************)
MessageComes ==
  /\ subscribed # {}
  /\ Go("spin", "spinning", "deliver")
  /\ UNCHANGED <<objects, sees, flags, calls, subscribed>>

SpinLooks ==
  /\ Go("spin", "delivering", "posting")
  /\ sees' = IF screen_ THEN sees \cup {"spin"} ELSE sees
  /\ UNCHANGED <<objects, flags, calls, subscribed>>

SpinPosts ==
  /\ Go("spin", "posting", "spinning")
  /\ sees' = sees \ {"spin"}
  /\ UNCHANGED <<objects, flags, calls, subscribed>>

SpinExits ==
  /\ stop_requested
  /\ Go("spin", "spinning", "exited")
  /\ UNCHANGED <<objects, sees, flags, calls, subscribed>>

\* A signal may take the ROS context down at any moment.
ContextGoesDown ==
  /\ Go("spin", "spinning", "exited")
  /\ UNCHANGED <<objects, sees, flags, calls, subscribed>>

Spin == Follow("spin") \/ SpinLooks \/ SpinPosts

-----------------------------------------------------------------------------
(***************************************************************************)
(* The worker.                                                             *)
(***************************************************************************)
\* Mutant of WorkerTakes: wait() without its predicate.
WorkerTakesUntested ==
  /\ ~shutdown
  /\ Go("worker", "idle", "execute")
  /\ \/ tasks # << >> /\ job' = Head(tasks) /\ tasks' = Tail(tasks)
     \/ tasks = << >> /\ UNCHANGED <<calls>>
  /\ UNCHANGED <<objects, sees, flags, subscribed>>

WorkerTakes ==
  /\ ~shutdown /\ tasks # << >>
  /\ Go("worker", "idle", "execute")
  /\ job' = Head(tasks) /\ tasks' = Tail(tasks)
  /\ UNCHANGED <<objects, sees, flags, subscribed>>

WorkerExits ==
  /\ shutdown
  /\ Go("worker", "idle", "exited")
  /\ UNCHANGED <<objects, sees, flags, calls, subscribed>>

\* The callback of the call: a service or a cancel shows its text; a goal
\* that was accepted is asked for its result, any other is over.
Answers ==
  /\ \/ job = "plain" /\ Go("worker", "answered", "report")
     \/ job = "send" /\ Go("worker", "answered", "ask")
     \/ job # "plain" /\ Go("worker", "answered", "forget")
  /\ UNCHANGED <<objects, sees, flags, calls, subscribed>>

Ask ==
  /\ Go("worker", "ask", "asking")
  /\ UNCHANGED <<objects, sees, flags, calls, subscribed>>

AskEnqueues ==
  /\ ~shutdown /\ ~stop_requested
  /\ Go("worker", "asking", "idle")
  /\ tasks' = Append(tasks, "result") /\ job' = "none"
  /\ UNCHANGED <<objects, sees, flags, subscribed>>

\* Refused, and the goal is disposed of by the callback, under queue_mutex_.
AskRefused ==
  /\ shutdown \/ stop_requested
  /\ Go("worker", "asking", "refused")
  /\ UNCHANGED <<objects, sees, flags, calls, subscribed>>

Unsubscribe(from, to) ==
  /\ Go("worker", from, to)
  /\ subscribed' = subscribed \ {"feedback"}
  /\ UNCHANGED <<objects, sees, flags, calls>>

CallbackReturns ==
  /\ \E p \in {"reporting", "refused_reporting"} : Go("worker", p, "idle")
  /\ job' = "none"
  /\ UNCHANGED <<objects, sees, flags, tasks, subscribed>>

Worker ==
  \/ Follow("worker") \/ WorkerTakes \/ WorkerExits \/ Answers
  \/ Ask \/ AskEnqueues \/ AskRefused
  \/ Unsubscribe("unsubscribe", "unsubscribing")
  \/ Unsubscribe("refused_forgot", "refused_unsubscribing")
  \/ CallbackReturns

-----------------------------------------------------------------------------
Next ==
  \/ Main \/ UserCommands \/ UserQuits
  \/ Refresh
  \/ Spin \/ SpinExits \/ MessageComes \/ ContextGoesDown
  \/ Worker

(***************************************************************************)
(* The threads keep running; a mutex that is free again and again is       *)
(* granted at last, and spin_some, which is given 100 ms, lets the loop    *)
(* look at its flag again and again: strong fairness.  The user, the       *)
(* publishers and the signals owe nothing.                                 *)
(***************************************************************************)
Fairness ==
  /\ SF_vars(Main) /\ SF_vars(Refresh) /\ SF_vars(Worker)
  /\ WF_vars(Spin) /\ SF_vars(SpinExits)

Spec == Init /\ [][Next]_vars
FairSpec == Spec /\ Fairness

-----------------------------------------------------------------------------
(***************************************************************************)
(* Safety.                                                                 *)
(***************************************************************************)
Joining(t, u) ==
  /\ t = "main"
  /\ <<pc[t], u>> \in { <<"join_refresh", "refresh">>, <<"join_worker", "worker">>,
                        <<"join_spin", "spin">> }
  /\ pc[u] \notin {"none", "exited"}

Awaits(t, u) ==
  \/ \E l \in Locks : pc[t] \in Waiting[l] /\ pc[u] \in Section[l]
  \/ Joining(t, u)

(* No threads wait for each other in a circle, be it for locks, also those *)
(* taken while others are held (data_mutex_ and then the manager's in a    *)
(* toggle; queue_mutex_ and then three more in a callback that is refused, *)
(* ros_manager.cpp:971), or for each other's end while the program stops.  *)
NoCircularWait ==
  \A group \in (SUBSET Threads) \ {{}} :
    \E t \in group : \A u \in group : ~Awaits(t, u)

(* What a thread uses is there: the application as long as the refresh     *)
(* thread runs, a call is served or a message is delivered                 *)
(* (main.cpp:50-54), and the screen when the refresh thread posts to it.   *)
ObjectsOutliveUse ==
  /\ app # "alive" =>
       /\ pc["refresh"] \in {"none", "exited"}
       /\ pc["spin"] \in {"none", "spinning", "exited"}
       /\ pc["worker"] \in {"idle", "exited"}
  /\ "refresh" \in sees => screen = "alive"

(* Quitting does not wait for the interval of the timer: when main joins   *)
(* the refresh thread, that thread is awake (app.cpp:271).                 *)
TimerWakesAtOnce == pc["main"] = "join_refresh" => pc["refresh"] # "asleep"

(* Every thread that posts an event has a screen to post it to.            *)
PostsReachScreen == sees # {} => screen = "alive"

(***************************************************************************)
(* Liveness, under FairSpec.                                               *)
(***************************************************************************)

(* The program ends when the user quits, whatever the threads are doing    *)
(* and however many messages keep coming.                                  *)
QuitCompletes == pc["main"] = "stop_timer" ~> pc["main"] = "done"
=============================================================================
