------------------------ MODULE ServiceWorkerProofs ------------------------
(***************************************************************************)
(* Proofs about the service worker, for any calls, deadlines and number of *)
(* stops.                                                                  *)
(***************************************************************************)
EXTENDS ServiceWorker, TLAPS

(***************************************************************************)
(* The inductive invariant.  An unanswered call is in one place: waiting   *)
(* in the queue, once, or in the hands of the worker.                      *)
(***************************************************************************)
QueueSound ==
  /\ \A i \in 1..Len(tasks) : tasks[i] \in issued /\ answers[tasks[i]] = 0
  /\ \A i, j \in 1..Len(tasks) : i # j => tasks[i] # tasks[j]

HandSound ==
  worker \in Running =>
    /\ current \in issued /\ answers[current] = 0
    /\ \A i \in 1..Len(tasks) : tasks[i] # current

UnusedUnanswered == \A c \in Calls \ issued : answers[c] = 0

\* Nothing is issued before the UI is up; after the join the worker is gone;
\* the stop() under way is not counted yet.
PhaseSound ==
  /\ main = "init" =>
       issued = {} /\ tasks = << >> /\ worker \in {"loop", "asleep"} /\ ~worker_shutdown
  /\ main \in {"teardown", "stopped"} => worker = "exited"
  /\ main \in Stopping => stops < MaxStops

IInv ==
  /\ TypeOK
  /\ AtMostOnce /\ QueueSound /\ HandSound /\ UnusedUnanswered
  /\ PhaseSound /\ NodeOutlivesCalls

(* The initial state: nothing issued, the worker about to look for work.   *)
LEMMA InitEstablishes == Init => IInv
<1> SUFFICES ASSUME Init PROVE IInv
  OBVIOUS
<1>1. TypeOK
  <2>1. tasks \in Seq(Calls)  BY DEF Init
  <2>2. polls \in 0..MaxPolls /\ stops \in 0..MaxStops
    BY WorkerAssumption DEF Init
  <2> QED  BY <2>1, <2>2 DEF Init, TypeOK, Running, Stopping
<1>2. AtMostOnce /\ QueueSound /\ HandSound /\ UnusedUnanswered
  BY DEF Init, AtMostOnce, QueueSound, HandSound, UnusedUnanswered, Running
<1>3. PhaseSound /\ NodeOutlivesCalls
  BY DEF Init, PhaseSound, NodeOutlivesCalls, Stopping
<1> QED  BY <1>1, <1>2, <1>3 DEF IInv

(* Taking the head leaves the other tasks, still different from it.        *)
LEMMA TailOfTasks ==
  ASSUME NEW S, NEW q \in Seq(S), q # << >>
  PROVE  /\ Head(q) = q[1] /\ Head(q) \in S
         /\ Tail(q) \in Seq(S) /\ Len(q) \in Nat \ {0}
         /\ Len(Tail(q)) = Len(q) - 1
         /\ \A i \in 1..Len(Tail(q)) : Tail(q)[i] = q[i + 1]
  OBVIOUS

(* A call, from the UI or from a callback, keeps the invariant.            *)
LEMMA CallKeeps ==
  ASSUME IInv, NEW c \in Calls, UiCall(c) \/ FollowUp(c)
  PROVE  IInv'
<1> USE DEF IInv, UiCall, FollowUp, call_service_async, ros, flags, ends
<1>1. CASE Refuse(c)
  BY <1>1 DEF Refuse, Invoke, TypeOK, AtMostOnce, QueueSound, HandSound,
     UnusedUnanswered, PhaseSound, NodeOutlivesCalls, Running
<1>2. CASE Enqueue(c)
  <2>1. /\ tasks' = Append(tasks, c) /\ issued' = issued \cup {c}
        /\ c \notin issued /\ answers[c] = 0
        /\ answers' = answers /\ outcome' = outcome /\ current' = current
        /\ worker' \in {worker, "loop"}
        /\ worker' \in Running => worker \in Running
    BY <1>2 DEF Enqueue, WakeWorker, UnusedUnanswered, TypeOK, Running
  <2>2. /\ Len(tasks') = Len(tasks) + 1 /\ Len(tasks) \in Nat
        /\ tasks'[Len(tasks')] = c
        /\ \A i \in 1..Len(tasks) : tasks'[i] = tasks[i]
    BY <2>1 DEF TypeOK
  <2>3. TypeOK'
    BY <1>2, <2>1 DEF TypeOK, Enqueue, WakeWorker, Running
  <2>4. QueueSound'
    BY <2>1, <2>2 DEF QueueSound, TypeOK
  <2>5. HandSound'
    BY <2>1, <2>2 DEF HandSound, TypeOK
  <2>6. AtMostOnce' /\ UnusedUnanswered'
    BY <2>1 DEF AtMostOnce, UnusedUnanswered
  <2>7. main # "init" /\ main \notin {"teardown", "stopped"} /\ main' = main
    BY DEF PhaseSound, TypeOK
  <2>8. PhaseSound' /\ NodeOutlivesCalls'
    BY <1>2, <2>7 DEF PhaseSound, NodeOutlivesCalls, Enqueue, WakeWorker
  <2> QED  BY <2>3, <2>4, <2>5, <2>6, <2>8
<1> QED  BY <1>1, <1>2

(* Every step of the worker keeps the invariant.                           *)
LEMMA WorkerKeeps ==
  ASSUME IInv, Worker \/ WorkerWakesSpuriously
  PROVE  IInv'
<1> USE WorkerAssumption DEF IInv, ros, flags, ends, Running
<1>1. CASE WorkerSleeps \/ WorkerWakesSpuriously \/ WorkerExits \/ CallbackReturns
  <2>1. /\ worker \in {"loop", "asleep", "callback"}
        /\ worker' \in {"loop", "asleep", "exited"}
        /\ main = "init" => worker' \in {"loop", "asleep"} \/ worker_shutdown
        /\ current' \in {current, NoCall}
        /\ UNCHANGED <<ros, flags, tasks, polls, success, spin, main, stops, issued, ends>>
    BY <1>1 DEF WorkerSleeps, WorkerWakesSpuriously, WorkerExits, CallbackReturns
  <2>2. TypeOK'
    BY <2>1 DEF TypeOK
  <2>3. AtMostOnce' /\ QueueSound' /\ HandSound' /\ UnusedUnanswered'
    BY <2>1 DEF AtMostOnce, QueueSound, HandSound, UnusedUnanswered
  <2>4. PhaseSound' /\ NodeOutlivesCalls'
    BY <2>1 DEF PhaseSound, NodeOutlivesCalls
  <2> QED  BY <2>2, <2>3, <2>4
<1>2. CASE WorkerTakes
  <2>1. /\ worker = "loop" /\ worker' = "start" /\ tasks # << >>
        /\ current' = Head(tasks) /\ tasks' = Tail(tasks)
        /\ UNCHANGED <<ros, flags, polls, success, spin, main, stops, issued, ends>>
    BY <1>2 DEF WorkerTakes
  <2>2. /\ Head(tasks) = tasks[1] /\ Head(tasks) \in Calls
        /\ Tail(tasks) \in Seq(Calls) /\ Len(tasks) \in Nat \ {0}
        /\ Len(Tail(tasks)) = Len(tasks) - 1
        /\ \A i \in 1..Len(Tail(tasks)) : Tail(tasks)[i] = tasks[i + 1]
    BY <2>1, TailOfTasks DEF TypeOK
  <2>3. TypeOK'
    BY <2>1, <2>2 DEF TypeOK
  <2>4. QueueSound' /\ HandSound'
    BY <2>1, <2>2 DEF QueueSound, HandSound
  <2>5. AtMostOnce' /\ UnusedUnanswered' /\ NodeOutlivesCalls'
    BY <2>1 DEF AtMostOnce, UnusedUnanswered, NodeOutlivesCalls
  <2>6. PhaseSound'
    BY <2>1 DEF PhaseSound
  <2> QED  BY <2>3, <2>4, <2>5, <2>6
<1>3. CASE ExecFailsEarly \/ ExecLooksForServer \/ ExecPolls \/ ExecSends
           \/ ExecGetsResponse \/ ExecGivesUp
  <2>1. /\ worker \in Running /\ worker' \in Running
        /\ UNCHANGED <<ros, flags, tasks, current, spin, main, stops, issued, ends>>
        /\ polls' \in 0..MaxPolls /\ success' \in BOOLEAN
        /\ worker' \in {"avail", "await"} => node
    <3>1. CASE ExecPolls
      BY <1>3, <3>1 DEF ExecPolls, TypeOK, NodeOutlivesCalls
    <3>2. CASE ExecLooksForServer \/ ExecSends
      BY <1>3, <3>2 DEF ExecLooksForServer, ExecSends, TypeOK, NodeOutlivesCalls
    <3>3. CASE ExecFailsEarly \/ ExecGetsResponse \/ ExecGivesUp
      <4>1. success' \in BOOLEAN /\ polls' = 0 /\ worker' = "reply"
        BY <3>3, Zenon DEF ExecFailsEarly, ExecGetsResponse, ExecGivesUp, Report
      <4>2. /\ worker \in Running
            /\ UNCHANGED <<ros, flags, tasks, current, spin, main, stops, issued, ends>>
        BY <3>3 DEF ExecFailsEarly, ExecGetsResponse, ExecGivesUp
      <4> QED  BY <4>1, <4>2
    <3> QED  BY <1>3, <3>1, <3>2, <3>3
  <2> QED
    BY <2>1 DEF TypeOK, AtMostOnce, QueueSound, HandSound, UnusedUnanswered,
       PhaseSound, NodeOutlivesCalls
<1>4. CASE ExecReplies
  <2>1. /\ worker = "reply" /\ worker' = "callback" /\ current \in Calls
        /\ answers' = [answers EXCEPT ![current] = @ + 1]
        /\ outcome' = [outcome EXCEPT ![current] = IF success THEN "ok" ELSE "failed"]
        /\ UNCHANGED <<ros, flags, tasks, current, polls, success, spin, main, stops, issued>>
    BY <1>4 DEF ExecReplies, Invoke, HandSound, TypeOK
  <2>2. TypeOK'
    BY <2>1 DEF TypeOK
  <2>3. answers[current] = 0 /\ current \in issued
        /\ \A i \in 1..Len(tasks) : tasks[i] # current
    BY <2>1 DEF HandSound
  <2>4. AtMostOnce' /\ UnusedUnanswered'
    BY <2>1, <2>3 DEF AtMostOnce, UnusedUnanswered, TypeOK
  <2>5. QueueSound' /\ HandSound'
    BY <2>1, <2>3 DEF QueueSound, HandSound, TypeOK
  <2>6. PhaseSound' /\ NodeOutlivesCalls'
    BY <2>1 DEF PhaseSound, NodeOutlivesCalls
  <2> QED  BY <2>2, <2>4, <2>5, <2>6
<1> QED  BY <1>1, <1>2, <1>3, <1>4 DEF Worker

(* start(), stop(), the spin thread and the signal handler keep it.        *)
LEMMA MainKeeps ==
  ASSUME IInv, Start \/ StartFails \/ StopRequest \/ StopGoesOn
               \/ SpinExits \/ ContextGoesDown
  PROVE  IInv'
<1> USE DEF IInv, ros, flags, exec, ends, Running, Stopping
<1>1. /\ UNCHANGED <<tasks, current, polls, success, issued, ends>>
      /\ worker' \in {worker, "loop"}
      /\ worker' # worker => worker = "asleep"
  BY DEF Start, StartFails, StopRequest, StopGoesOn, StopCloses, StopNotifies,
     StopJoinsWorker, StopTearsDown, SpinExits, ContextGoesDown, WakeWorker
<1>2. TypeOK'
  <2>1. CASE Start \/ StartFails \/ StopRequest
    <3>1. /\ UNCHANGED <<worker, worker_shutdown, stops>>
          /\ main' \in {"up", "close"}
          /\ spin' \in {spin, "spinning"}
      BY <2>1 DEF Start, StartFails, StopRequest
    <3>2. context_ok' \in BOOLEAN /\ node' \in BOOLEAN /\ connected' \in BOOLEAN
      <4>1. CASE Start  BY <4>1 DEF Start
      <4>2. CASE StartFails  BY <4>2, Zenon DEF StartFails
      <4>3. CASE StopRequest  BY <4>3, Zenon DEF StopRequest, TypeOK
      <4> QED  BY <2>1, <4>1, <4>2, <4>3
    <3>3. stop_requested' \in BOOLEAN
      <4>1. CASE Start \/ StopRequest  BY <4>1 DEF Start, StopRequest
      <4>2. CASE StartFails  BY <4>2, Zenon DEF StartFails, TypeOK
      <4> QED  BY <2>1, <4>1, <4>2
    <3> QED  BY <1>1, <3>1, <3>2, <3>3 DEF TypeOK
  <2>2. CASE StopCloses \/ StopNotifies
    <3>1. /\ UNCHANGED <<ros, stop_requested, spin, stops>>
          /\ main' \in {"notify", "join"}
      BY <2>2 DEF StopCloses, StopNotifies
    <3>2. worker_shutdown' \in BOOLEAN
      BY <2>2, Zenon DEF StopCloses, StopNotifies, TypeOK
    <3> QED  BY <1>1, <3>1, <3>2 DEF TypeOK
  <2>3. CASE StopJoinsWorker \/ StopTearsDown
    <3>1. stops' \in 0..MaxStops
      BY <2>3, WorkerAssumption DEF StopJoinsWorker, StopTearsDown, TypeOK, PhaseSound
    <3> QED  BY <2>3, <3>1 DEF StopJoinsWorker, StopTearsDown, TypeOK
  <2>4. CASE SpinExits \/ ContextGoesDown
    <3>1. /\ UNCHANGED <<node, connected, flags, main, stops>>
          /\ spin' \in {spin, "exited"}
      BY <2>4 DEF SpinExits, ContextGoesDown
    <3>2. context_ok' \in BOOLEAN
      BY <2>4, Zenon DEF SpinExits, ContextGoesDown, ros, TypeOK
    <3> QED  BY <1>1, <3>1, <3>2 DEF TypeOK
  <2> QED  BY <2>1, <2>2, <2>3, <2>4 DEF StopGoesOn
<1>3. AtMostOnce' /\ QueueSound' /\ HandSound' /\ UnusedUnanswered'
  BY <1>1 DEF AtMostOnce, QueueSound, HandSound, UnusedUnanswered
<1>4. PhaseSound'
  BY <1>1 DEF PhaseSound, Start, StartFails, StopRequest, StopGoesOn, StopCloses,
     StopNotifies, StopJoinsWorker, StopTearsDown, SpinExits, ContextGoesDown,
     WakeWorker
<1>5. NodeOutlivesCalls'
  BY <1>1 DEF PhaseSound, NodeOutlivesCalls, Start, StartFails, StopRequest,
     StopGoesOn, StopCloses, StopNotifies, StopJoinsWorker, StopTearsDown,
     SpinExits, ContextGoesDown
<1> QED  BY <1>2, <1>3, <1>4, <1>5

(* Nothing that the invariant reads changes in a stuttering step.          *)
LEMMA StutterKeeps ==
  ASSUME IInv, UNCHANGED vars
  PROVE  IInv'
  BY DEF IInv, vars, ros, flags, exec, ends, TypeOK, AtMostOnce, QueueSound,
     HandSound, UnusedUnanswered, PhaseSound, NodeOutlivesCalls, Running, Stopping

(* Every step of any thread keeps the invariant.                           *)
LEMMA NextKeeps == IInv /\ [Next]_vars => IInv'
  BY CallKeeps, WorkerKeeps, MainKeeps, StutterKeeps DEF Next

(* The worker's data stay of their types, the queue and the poll count     *)
(* included, whatever the interleaving.                                    *)
THEOREM WorkerTypeCorrect == Spec => []TypeOK
<1>1. IInv => TypeOK  BY DEF IInv
<1> QED  BY InitEstablishes, NextKeeps, <1>1, PTL DEF Spec

(* No callback is ever invoked twice (ros_manager.cpp:88-107, 964-978).    *)
THEOREM WorkerAnswersAtMostOnce == Spec => []AtMostOnce
<1>1. IInv => AtMostOnce  BY DEF IInv
<1> QED  BY InitEstablishes, NextKeeps, <1>1, PTL DEF Spec

(* A call in progress never loses its node to stop().                      *)
THEOREM NodeAlwaysOutlivesCalls == Spec => []NodeOutlivesCalls
<1>1. IInv => NodeOutlivesCalls  BY DEF IInv
<1> QED  BY InitEstablishes, NextKeeps, <1>1, PTL DEF Spec

(* Once stop() has returned, no callback runs.                             *)
THEOREM StopIsFinal == Spec => NoCallbackAfterStop
<1>1. IInv /\ [Next]_vars => [main = "stopped" => UNCHANGED ends]_vars
  <2> SUFFICES ASSUME IInv, Next, main = "stopped" PROVE UNCHANGED ends
    OBVIOUS
  <2>1. worker = "exited"
    BY DEF IInv, PhaseSound
  <2>2. ASSUME NEW c \in Calls, UiCall(c) \/ FollowUp(c) PROVE FALSE
    BY <2>1, <2>2 DEF UiCall, FollowUp
  <2>3. ASSUME Worker \/ WorkerWakesSpuriously PROVE FALSE
    BY <2>1, <2>3 DEF Worker, WorkerWakesSpuriously, WorkerSleeps, WorkerExits,
       WorkerTakes, ExecFailsEarly, ExecLooksForServer, ExecPolls, ExecSends,
       ExecGetsResponse, ExecGivesUp, ExecReplies, CallbackReturns
  <2>4. ASSUME StopRequest \/ StopGoesOn \/ SpinExits \/ ContextGoesDown
               \/ Start \/ StartFails
        PROVE  UNCHANGED ends
    BY <2>4 DEF StopRequest, StopGoesOn, SpinExits, ContextGoesDown, Start,
       StartFails, StopCloses, StopNotifies, StopJoinsWorker, StopTearsDown
  <2> QED  BY <2>2, <2>3, <2>4 DEF Next
<1> QED  BY InitEstablishes, NextKeeps, <1>1, PTL DEF Spec, NoCallbackAfterStop

(***************************************************************************)
(* The worker keeps what ServiceCalls promises.                            *)
(***************************************************************************)
\* Only a manager that stops has a worker that quit, and none stops before
\* main has left the UI.
QuitSound ==
  /\ worker = "exited" => worker_shutdown
  /\ main \in {"init", "up"} => ~stop_requested /\ ~worker_shutdown

LEMMA QuitSoundKept == IInv /\ QuitSound /\ [Next]_vars => QuitSound'
<1> SUFFICES ASSUME IInv, QuitSound, [Next]_vars PROVE QuitSound'
  OBVIOUS
<1> USE DEF QuitSound, ros, flags, exec, ends
<1>1. ASSUME NEW c \in Calls, UiCall(c) \/ FollowUp(c) PROVE QuitSound'
  BY <1>1 DEF UiCall, FollowUp, call_service_async, Refuse, Enqueue, WakeWorker
<1>2. CASE Worker \/ WorkerWakesSpuriously
  BY <1>2 DEF Worker, WorkerSleeps, WorkerWakesSpuriously, WorkerExits, WorkerTakes,
     ExecFailsEarly, ExecLooksForServer, ExecPolls, ExecSends, ExecGetsResponse,
     ExecGivesUp, ExecReplies, CallbackReturns, Report
<1>3. CASE Start \/ StartFails \/ StopRequest \/ StopGoesOn \/ SpinExits \/ ContextGoesDown
  BY <1>3 DEF Start, StartFails, StopRequest, StopGoesOn, StopCloses, StopNotifies,
     StopJoinsWorker, StopTearsDown, SpinExits, ContextGoesDown, WakeWorker
<1>4. CASE UNCHANGED vars
  BY <1>4 DEF vars
<1> QED  BY <1>1, <1>2, <1>3, <1>4 DEF Next

\* No call that was taken gets lost: until it is answered it waits in the queue
\* or is in the hands of the worker.
Accounted ==
  /\ \A c \in issued : answers[c] = 0 =>
       \/ worker \in Running /\ current = c
       \/ \E i \in 1..Len(tasks) : tasks[i] = c
  /\ \A c \in Calls \ issued : outcome[c] = "none"

LEMMA AccountedKept == IInv /\ Accounted /\ [Next]_vars => Accounted'
<1> SUFFICES ASSUME IInv, Accounted, [Next]_vars PROVE Accounted'
  OBVIOUS
<1> USE DEF Accounted, ros, flags, exec, ends
<1>1. ASSUME NEW c \in Calls, UiCall(c) \/ FollowUp(c) PROVE Accounted'
  <2> USE <1>1 DEF UiCall, FollowUp, call_service_async
  <2>1. CASE Refuse(c)
    BY <2>1 DEF Refuse, Invoke, IInv, TypeOK, UnusedUnanswered
  <2>2. CASE Enqueue(c)
    <3>1. /\ issued' = issued \cup {c} /\ tasks' = Append(tasks, c) /\ tasks \in Seq(Calls)
          /\ UNCHANGED <<answers, outcome, current>>
          /\ worker \in Running => worker' = worker
      BY <2>2 DEF Enqueue, WakeWorker, Running, IInv, TypeOK
    <3>2. /\ Len(tasks') = Len(tasks) + 1 /\ Len(tasks) \in Nat
          /\ tasks'[Len(tasks) + 1] = c
          /\ \A i \in 1..Len(tasks) : tasks'[i] = tasks[i]
      BY <3>1
    <3> QED  BY <3>1, <3>2
  <2> QED  BY <2>1, <2>2
<1>2. CASE WorkerTakes
  <2>1. /\ worker' = "start" /\ current' = Head(tasks) /\ tasks' = Tail(tasks)
        /\ worker \notin Running /\ worker' \in Running
        /\ tasks \in Seq(Calls) /\ tasks # << >>
        /\ UNCHANGED <<issued, answers, outcome>>
    BY <1>2 DEF WorkerTakes, IInv, TypeOK, Running
  <2>2. /\ current' = tasks[1] /\ Len(tasks') = Len(tasks) - 1 /\ Len(tasks) \in Nat \ {0}
        /\ \A i \in 1..Len(tasks') : tasks'[i] = tasks[i + 1]
    BY <2>1, TailOfTasks
  <2>3. ASSUME NEW i \in 1..Len(tasks)
        PROVE  tasks[i] = current' \/ \E j \in 1..Len(tasks') : tasks'[j] = tasks[i]
    <3>1. CASE i = 1
      BY <2>2, <3>1
    <3>2. CASE i # 1
      <4>1. i - 1 \in 1..Len(tasks') /\ tasks'[i - 1] = tasks[i]
        BY <2>2, <3>2
      <4> QED  BY <4>1
    <3> QED  BY <3>1, <3>2
  <2>4. ASSUME NEW c \in issued', answers'[c] = 0
        PROVE  current' = c \/ \E j \in 1..Len(tasks') : tasks'[j] = c
    <3>1. PICK i \in 1..Len(tasks) : tasks[i] = c
      BY <2>1, <2>4
    <3> QED  BY <2>3, <3>1
  <2> QED  BY <2>1, <2>4
<1>3. CASE ExecReplies
  <2>1. /\ current \in issued /\ current \in Calls /\ answers[current] = 0
    BY <1>3 DEF ExecReplies, IInv, HandSound, Running, TypeOK
  <2>2. /\ \A c \in Calls : answers'[c] = IF c = current THEN 1 ELSE answers[c]
        /\ \A c \in Calls \ issued : outcome'[c] = outcome[c]
        /\ UNCHANGED <<issued, tasks>>
    BY <1>3, <2>1 DEF ExecReplies, Invoke, IInv, TypeOK
  <2>3. issued \subseteq Calls
    BY DEF IInv, TypeOK
  <2>4. ASSUME NEW c \in issued', answers'[c] = 0
        PROVE  \E i \in 1..Len(tasks') : tasks'[i] = c
    BY <2>1, <2>2, <2>3, <2>4
  <2>5. \A c \in Calls \ issued' : outcome'[c] = "none"
    BY <2>2
  <2> QED  BY <2>4, <2>5
<1>4. CASE \/ WorkerSleeps \/ WorkerExits \/ WorkerWakesSpuriously
           \/ ExecFailsEarly \/ ExecLooksForServer \/ ExecPolls \/ ExecSends
           \/ ExecGetsResponse \/ ExecGivesUp \/ CallbackReturns
  <2>1. /\ UNCHANGED <<issued, answers, outcome, tasks>>
        /\ worker \in Running => worker' \in Running /\ current' = current
    BY <1>4 DEF WorkerSleeps, WorkerWakesSpuriously, WorkerExits, ExecFailsEarly,
       ExecLooksForServer, ExecPolls, ExecSends, ExecGetsResponse, ExecGivesUp,
       CallbackReturns, Report, Running
  <2> QED  BY <2>1
<1>5. CASE Start \/ StartFails \/ StopRequest \/ StopGoesOn \/ SpinExits \/ ContextGoesDown
  <2>1. /\ UNCHANGED <<issued, answers, outcome, tasks, current>>
        /\ worker \in Running => worker' \in Running
    BY <1>5 DEF Start, StartFails, StopRequest, StopGoesOn, StopCloses, StopNotifies,
       StopJoinsWorker, StopTearsDown, SpinExits, ContextGoesDown, WakeWorker, Running
  <2> QED  BY <2>1
<1>6. CASE UNCHANGED vars
  BY <1>6 DEF vars
<1> QED  BY <1>1, <1>2, <1>3, <1>4, <1>5, <1>6 DEF Next, Worker

LEMMA InitAccounted == Init => QuitSound /\ Accounted
  BY DEF Init, QuitSound, Accounted

\* New calls are taken.
Open == ~stop_requested /\ ~worker_shutdown

\* The fate of a call in so many words.
LEMMA FateCases ==
  ASSUME IInv, NEW c \in Calls
  PROVE  /\ Fate[c] = FateOf(c)
         /\ c \notin issued => FateOf(c) = "unused"
         /\ c \in issued /\ answers[c] = 0 =>
              FateOf(c) = IF worker = "exited" THEN "dropped" ELSE "pending"
         /\ c \in issued /\ answers[c] = 1 => FateOf(c) = outcome[c]
         /\ answers[c] \in {0, 1}
<1>1. answers[c] \in {0, 1}
  BY DEF IInv, TypeOK, AtMostOnce
<1>2. c \notin issued => FateOf(c) = "unused"
  BY DEF FateOf
<1>3. c \in issued /\ answers[c] = 0 =>
        FateOf(c) = IF worker = "exited" THEN "dropped" ELSE "pending"
  BY DEF FateOf
<1>4. c \in issued /\ answers[c] = 1 => FateOf(c) = outcome[c]
  BY DEF FateOf
<1>5. Fate[c] = FateOf(c)
  BY DEF Fate
<1> QED  BY <1>1, <1>2, <1>3, <1>4, <1>5

\* A step that disturbs nothing a call's fate is read from.
LEMMA FateOfSame ==
  ASSUME NEW c, c \in issued' <=> c \in issued, answers'[c] = answers[c],
         outcome'[c] = outcome[c], worker' = "exited" <=> worker = "exited"
  PROVE  FateOf(c)' = FateOf(c)
  BY DEF FateOf

\* A call that a step answered.
LEMMA FateAnswered ==
  ASSUME NEW c, c \in issued', answers'[c] = 1
  PROVE  FateOf(c)' = outcome'[c]
  BY DEF FateOf

\* A step that settles one call and leaves the others alone.
LEMMA FateSettles ==
  ASSUME NEW c \in Calls, NEW f, FateOf(c)' = f,
         \A d \in Calls \ {c} : FateOf(d)' = FateOf(d)
  PROVE  Fate' = [Fate EXCEPT ![c] = f]
  BY DEF Fate

LEMMA FateSame ==
  ASSUME UNCHANGED <<issued, answers, outcome>>,
         worker' = "exited" <=> worker = "exited"
  PROVE  Fate' = Fate
<1>1. \A c \in Calls : FateOf(c)' = FateOf(c)
  BY FateOfSame
<1> QED  BY <1>1 DEF Fate

\* A call is a Submit or a Refuse of the promise.
LEMMA CallRefines ==
  ASSUME IInv, QuitSound, NEW c \in Calls, UiCall(c) \/ FollowUp(c)
  PROVE  Promise!Submit(c) \/ Promise!Refuse(c)
<1> USE DEF UiCall, FollowUp, call_service_async, ros, flags, ends
<1>1. c \notin issued /\ issued' = issued \cup {c} /\ answers[c] = 0 /\ c \in issued'
  BY DEF IInv, UnusedUnanswered
<1>2. Fate[c] = "unused"
  BY <1>1, FateCases
<1>3. CASE Refuse(c)
  <2>1. /\ answers' = [answers EXCEPT ![c] = @ + 1]
        /\ outcome' = [outcome EXCEPT ![c] = "refused"]
        /\ UNCHANGED <<tasks, worker, current, stop_requested, worker_shutdown>>
        /\ ~Open
    BY <1>3 DEF Refuse, Invoke, Open
  <2>2. answers'[c] = 1 /\ outcome'[c] = "refused"
    BY <1>1, <2>1 DEF IInv, TypeOK
  <2>3. Fate' = [Fate EXCEPT ![c] = "refused"]
    <3>1. FateOf(c)' = "refused"
      BY <1>1, <2>2, FateAnswered
    <3>2. ASSUME NEW d \in Calls \ {c} PROVE FateOf(d)' = FateOf(d)
      <4>1. answers'[d] = answers[d] /\ outcome'[d] = outcome[d]
        BY <2>1 DEF IInv, TypeOK
      <4> QED  BY <1>1, <2>1, <4>1, FateOfSame
    <3> QED  BY <3>1, <3>2, FateSettles
  <2> QED
    BY <1>2, <2>1, <2>3 DEF Promise!Refuse, Promise!Settle, Open
<1>4. CASE Enqueue(c)
  <2>1. /\ tasks' = Append(tasks, c) /\ Open
        /\ worker' = (IF worker = "asleep" THEN "loop" ELSE worker)
        /\ UNCHANGED <<current, stop_requested, worker_shutdown, answers, outcome>>
    BY <1>4 DEF Enqueue, WakeWorker, Open
  <2>2. worker # "exited" /\ worker' # "exited"
    BY <2>1 DEF QuitSound, Open
  <2>3. Fate' = [Fate EXCEPT ![c] = "pending"]
    <3>1. FateOf(c)' = "pending"
      BY <1>1, <2>1, <2>2 DEF FateOf
    <3>2. ASSUME NEW d \in Calls \ {c} PROVE FateOf(d)' = FateOf(d)
      BY <1>1, <2>1, <2>2, FateOfSame
    <3> QED  BY <3>1, <3>2, FateSettles
  <2>4. worker' \in Running <=> worker \in Running
    BY <2>1 DEF Running
  <2> QED
    BY <1>2, <2>1, <2>2, <2>3, <2>4 DEF Promise!Submit, Promise!Settle, Open
<1> QED  BY <1>3, <1>4

\* What the worker does is a Serve, an Answer, a Quit or nothing.
LEMMA WorkerRefines ==
  ASSUME IInv, QuitSound, Worker \/ WorkerWakesSpuriously
  PROVE  [Promise!Next]_Promise!vars
<1> USE DEF ros, flags, exec, ends
<1>1. CASE WorkerSleeps \/ WorkerWakesSpuriously \/ ExecFailsEarly \/ ExecLooksForServer
           \/ ExecPolls \/ ExecSends \/ ExecGetsResponse \/ ExecGivesUp \/ CallbackReturns
  <2>1. /\ UNCHANGED <<stop_requested, worker_shutdown, tasks, issued, answers, outcome>>
        /\ worker # "exited" /\ worker' # "exited"
        /\ \/ worker \in Running /\ worker' \in Running /\ current' = current
           \/ worker \notin Running /\ worker' \notin Running
    BY <1>1 DEF WorkerSleeps, WorkerWakesSpuriously, ExecFailsEarly, ExecLooksForServer,
       ExecPolls, ExecSends, ExecGetsResponse, ExecGivesUp, CallbackReturns, Report, Running
  <2>2. Fate' = Fate
    BY <2>1, FateSame
  <2> QED  BY <2>1, <2>2 DEF Promise!vars
<1>2. CASE WorkerExits
  <2>1. /\ worker = "loop" /\ worker' = "exited" /\ worker_shutdown
        /\ UNCHANGED <<stop_requested, worker_shutdown, tasks, issued, answers, outcome>>
    BY <1>2 DEF WorkerExits
  <2>2. \A c \in Calls : outcome[c] # "pending" /\ answers[c] \in {0, 1}
    BY FateCases DEF IInv, TypeOK
  <2>3. Fate' = [c \in Calls |-> IF Fate[c] = "pending" THEN "dropped" ELSE Fate[c]]
    <3>1. ASSUME NEW c \in Calls
          PROVE  FateOf(c)' = IF FateOf(c) = "pending" THEN "dropped" ELSE FateOf(c)
      <4>1. CASE c \notin issued
        BY <2>1, <4>1 DEF FateOf
      <4>2. CASE c \in issued /\ answers[c] = 0
        BY <2>1, <4>2 DEF FateOf
      <4>3. CASE c \in issued /\ answers[c] = 1
        BY <2>1, <2>2, <4>3 DEF FateOf
      <4> QED  BY <2>2, <4>1, <4>2, <4>3
    <3> QED  BY <3>1 DEF Fate
  <2>4. Promise!Quit
    BY <2>1, <2>3 DEF Promise!Quit, Running
  <2> QED  BY <2>4 DEF Promise!Next
<1>3. CASE WorkerTakes
  <2>1. /\ worker = "loop" /\ worker' = "start" /\ tasks # << >>
        /\ current' = Head(tasks) /\ tasks' = Tail(tasks)
        /\ UNCHANGED <<stop_requested, worker_shutdown, issued, answers, outcome>>
    BY <1>3 DEF WorkerTakes
  <2>2. Fate' = Fate
    BY <2>1, FateSame
  <2>3. Promise!Serve
    BY <2>1, <2>2 DEF Promise!Serve, Running
  <2> QED  BY <2>3 DEF Promise!Next
<1>4. CASE ExecReplies
  <2> DEFINE f == IF success THEN "ok" ELSE "failed"
  <2>1. /\ worker = "reply" /\ worker' = "callback"
        /\ answers' = [answers EXCEPT ![current] = @ + 1]
        /\ outcome' = [outcome EXCEPT ![current] = f]
        /\ UNCHANGED <<stop_requested, worker_shutdown, tasks, current, issued>>
    BY <1>4 DEF ExecReplies, Invoke
  <2>2. PICK c \in Calls : c = current /\ c # NoCall /\ c \in issued /\ answers[c] = 0
    BY <2>1, WorkerAssumption DEF IInv, HandSound, Running, TypeOK
  <2>3. Fate[c] = "pending"
    BY <2>1, <2>2, FateCases
  <2>4. answers'[c] = 1 /\ outcome'[c] = f
    BY <2>1, <2>2 DEF IInv, TypeOK
  <2> HIDE DEF f
  <2>5. Fate' = [Fate EXCEPT ![c] = f]
    <3>1. FateOf(c)' = f
      BY <2>1, <2>2, <2>4, FateAnswered
    <3>2. ASSUME NEW d \in Calls \ {c} PROVE FateOf(d)' = FateOf(d)
      <4>1. answers'[d] = answers[d] /\ outcome'[d] = outcome[d]
        BY <2>1, <2>2 DEF IInv, TypeOK
      <4> QED  BY <2>1, <4>1, FateOfSame
    <3> QED  BY <3>1, <3>2, FateSettles
  <2>6. Promise!Answer(f)
    BY <2>1, <2>2, <2>3, <2>5 DEF Promise!Answer, Promise!Settle, Running
  <2>7. f \in {"ok", "failed"}
    BY DEF f
  <2> QED  BY <2>6, <2>7 DEF Promise!Next
<1> QED  BY <1>1, <1>2, <1>3, <1>4 DEF Worker

\* Of what main, the spin thread and the signal do, only closing is visible.
LEMMA MainRefines ==
  ASSUME IInv, QuitSound,
         Start \/ StartFails \/ StopRequest \/ StopGoesOn \/ SpinExits \/ ContextGoesDown
  PROVE  [Promise!Next]_Promise!vars
<1>1. /\ UNCHANGED <<tasks, current, issued, answers, outcome>>
      /\ worker' = "exited" <=> worker = "exited"
      /\ worker' \in Running <=> worker \in Running
      /\ Open' = Open \/ Open' = FALSE
  BY DEF Start, StartFails, StopRequest, StopGoesOn, StopCloses, StopNotifies,
     StopJoinsWorker, StopTearsDown, SpinExits, ContextGoesDown, WakeWorker, Running,
     Open, QuitSound, IInv, TypeOK, ros, flags, exec, ends
<1>2. Fate' = Fate
  BY <1>1, FateSame
<1>3. CASE Open' = FALSE
  BY <1>1, <1>2, <1>3 DEF Promise!Close, Promise!Next, Open
<1>4. CASE Open' = Open
  BY <1>1, <1>2, <1>4 DEF Promise!vars, Open
<1> QED  BY <1>1, <1>3, <1>4

(* The worker implements ServiceCalls: in order, one at a time, refused    *)
(* only while stopping, lost only by quitting.                             *)
THEOREM WorkerKeepsPromise == Spec => ImplementsServiceCalls
<1>1. Init => Promise!Init /\ QuitSound
  <2> SUFFICES ASSUME Init PROVE Promise!Init /\ QuitSound
    OBVIOUS
  <2>1. \A c \in Calls : FateOf(c) = "unused"
    BY DEF FateOf, Init
  <2>2. Fate = [c \in Calls |-> "unused"]
    BY <2>1 DEF Fate
  <2>3. (~stop_requested /\ ~worker_shutdown) = TRUE
    BY Zenon DEF Init
  <2> QED  BY <2>2, <2>3 DEF Init, Promise!Init, QuitSound, Running
<1>2. IInv /\ IInv' /\ QuitSound /\ [Next]_vars => [Promise!Next]_Promise!vars
  <2> SUFFICES ASSUME IInv, IInv', QuitSound, [Next]_vars
               PROVE  [Promise!Next]_Promise!vars
    OBVIOUS
  <2>1. CASE UNCHANGED vars
    <3>1. /\ UNCHANGED <<stop_requested, worker_shutdown, tasks, current, worker,
                         issued, answers, outcome>>
          /\ Fate' = Fate
      BY <2>1, FateSame DEF vars, flags, exec, ends
    <3> QED  BY <3>1 DEF Promise!vars
  <2>2. ASSUME NEW c \in Calls, UiCall(c) \/ FollowUp(c) PROVE Promise!Next
    BY <2>2, CallRefines DEF Promise!Next
  <2> QED  BY <2>1, <2>2, WorkerRefines, MainRefines DEF Next
<1> QED
  BY InitEstablishes, NextKeeps, QuitSoundKept, <1>1, <1>2, PTL
     DEF Spec, ImplementsServiceCalls, Promise!Spec
=============================================================================
