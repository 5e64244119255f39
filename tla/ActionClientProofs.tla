------------------------- MODULE ActionClientProofs -------------------------
(***************************************************************************)
(* Proofs about the action client, for any goals, cancels, actions and     *)
(* deadlines.  A goal sent is accounted for at every moment: the UI is     *)
(* about to hand its call over, or one of its two calls is unanswered, or  *)
(* the worker is in the callback that will report it.                      *)
(***************************************************************************)
EXTENDS ActionClient, TLAPS

\* The worker's own proofs; P says of the same variables what W says.
P == INSTANCE ServiceWorkerProofs

SendOf(g) == [kind |-> "send", of |-> g, uuid |-> g]
ResultOf(g) == [kind |-> "result", of |-> g, uuid |-> g]

\* In a callback that has still to report its goal.
Disposing == {"ask", "forget", "unsubscribe", "report"}
UiSends == {"subscribe", "enqueue"}

(***************************************************************************)
(* The inductive invariant.                                                *)
(***************************************************************************)
UiSound ==
  /\ ui.step \in UiSends =>
       /\ ui.of \in Goals /\ ui.on \in Actions
       /\ ui.uuid = ui.of /\ goalAction[ui.of] = ui.on
       /\ SendOf(ui.of) \notin issued
  /\ ui.step # "idle" => main = "up"

\* get_result is asked for the goal that was sent, after send_goal was answered.
CallsSound ==
  \A c \in issued :
    /\ c.kind = "send" => goalAction[c.of] # NoAction
    /\ c.kind = "result" => /\ c.uuid = c.of
                            /\ SendOf(c.of) \in issued /\ answers[SendOf(c.of)] = 1

CallbackSound ==
  /\ worker = "callback" <=> cb # "none"
  /\ worker = "callback" => current \in issued /\ answers[current] = 1
  /\ cb \in Disposing =>
       current.kind \in {"send", "result"} /\ reported[current.of] = 0
  /\ cb = "ask" => current.kind = "send" /\ ResultOf(current.of) \notin issued
  /\ cb \in Disposing /\ ResultOf(current.of) \in issued =>
       answers[ResultOf(current.of)] = 1

\* Both calls of the goal are over.
Over(g) ==
  /\ SendOf(g) \in issued /\ answers[SendOf(g)] = 1
  /\ ResultOf(g) \in issued => answers[ResultOf(g)] = 1

ReportSound == \A g \in Goals : reported[g] <= 1 /\ (reported[g] = 1 => Over(g))

Unanswered(c) == c \in issued /\ answers[c] = 0
InUi(g) == ui.step \in UiSends /\ ui.of = g
InCallback(g) == cb \in Disposing /\ current.of = g
Alive(g) ==
  InUi(g) \/ Unanswered(SendOf(g)) \/ Unanswered(ResultOf(g)) \/ InCallback(g)

NoGoalLost == \A g \in Goals : Unreported(g) => Alive(g)

\* The entries of the two maps belong to goals of their action that are not
\* reported, nor past the step that erases them.
EntriesSound ==
  \A a \in Actions :
    /\ active[a] # NoGoal =>
         /\ goalAction[active[a]] = a /\ reported[active[a]] = 0
         /\ ~(cb \in {"unsubscribe", "report"} /\ current.of = active[a])
    /\ feedback_sub[a] # NoGoal =>
         /\ goalAction[feedback_sub[a]] = a /\ reported[feedback_sub[a]] = 0
         /\ ~(cb = "report" /\ current.of = feedback_sub[a])

\* A request is judged once, and a response is there when the server gave it.
Reached(g) == goalState[g] # "unknown" \/ SendOf(g) \in requests
Answered(c) ==
  /\ c.kind = "send" => goalState[c.uuid] # "unknown"
  /\ c.kind = "result" => goalState[c.uuid] \in Final

ServerSound ==
  /\ \A g \in Goals : Reached(g) =>
       /\ SendOf(g) \in issued
       /\ answers[SendOf(g)] = 1 \/ (current = SendOf(g) /\ worker \in {"await", "reply"})
  /\ \A g \in Goals : SendOf(g) \in requests => goalState[g] = "unknown"
  /\ response => worker = "await" /\ Answered(current)
  /\ worker \in {"reply", "callback"} /\ success => Answered(current)

\* Without an overlap an action has one goal to report, and remembers it.
OneByOne ==
  ~overlapped =>
    /\ \A g, h \in Goals :
         Unreported(g) /\ Unreported(h) /\ goalAction[g] = goalAction[h] => g = h
    /\ \A g \in Goals : Pending(g) => active[goalAction[g]] = g

WInv == P!IInv /\ P!QuitSound /\ P!Accounted

Inv ==
  /\ WInv /\ TypeOK
  /\ UiSound /\ CallsSound /\ CallbackSound /\ ReportSound
  /\ NoGoalLost /\ EntriesSound /\ ServerSound /\ ResultsTruthful /\ OneByOne

(***************************************************************************)
(* What a call looks like.                                                 *)
(***************************************************************************)
LEMMA CallShape ==
  /\ \A g \in Goals :
       /\ SendOf(g) \in Calls /\ ResultOf(g) \in Calls
       /\ SendOf(g).kind = "send" /\ SendOf(g).of = g /\ SendOf(g).uuid = g
       /\ ResultOf(g).kind = "result" /\ ResultOf(g).of = g /\ ResultOf(g).uuid = g
  /\ \A c \in Calls :
       /\ c.kind \in {"send", "result", "cancel"}
       /\ c.kind = "send" => c.of \in Goals /\ c = SendOf(c.of) /\ c.uuid = c.of
       /\ c.kind = "result" =>
            c.of \in Goals /\ c.uuid \in Goals /\ (c.uuid = c.of => c = ResultOf(c.of))
       /\ c.kind = "cancel" => c.of \in Cancels
<1>1. ASSUME NEW g \in Goals
      PROVE  /\ SendOf(g) \in Calls /\ ResultOf(g) \in Calls
             /\ SendOf(g).kind = "send" /\ SendOf(g).of = g /\ SendOf(g).uuid = g
             /\ ResultOf(g).kind = "result" /\ ResultOf(g).of = g /\ ResultOf(g).uuid = g
  BY DEF SendOf, ResultOf, Calls
<1>2. ASSUME NEW c \in Calls
      PROVE  /\ c.kind \in {"send", "result", "cancel"}
             /\ c.kind = "send" => c.of \in Goals /\ c = SendOf(c.of) /\ c.uuid = c.of
             /\ c.kind = "result" =>
                  c.of \in Goals /\ c.uuid \in Goals /\ (c.uuid = c.of => c = ResultOf(c.of))
             /\ c.kind = "cancel" => c.of \in Cancels
  <2>1. CASE \E g \in Goals : c = [kind |-> "send", of |-> g, uuid |-> g]
    BY <2>1 DEF SendOf
  <2>2. CASE c \in [kind : {"result"}, of : Goals, uuid : Goals]
    BY <2>2 DEF ResultOf
  <2>3. CASE c \in [kind : {"cancel"}, of : Cancels, uuid : Goals \cup {AllGoals}]
    BY <2>3
  <2> QED  BY <2>1, <2>2, <2>3 DEF Calls
<1> QED  BY <1>1, <1>2

(***************************************************************************)
(* The steps of the service worker are those its own proofs speak of.      *)
(***************************************************************************)
LEMMA WorkerAssumed == P!WorkerAssumption
  BY ActionAssumption DEF P!WorkerAssumption

LEMMA CallIsPCall ==
  ASSUME NEW c \in Calls, W!UiCall(c) \/ W!FollowUp(c)
  PROVE  P!Next
<1>1. P!UiCall(c) \/ P!FollowUp(c)
  BY Zenon DEF W!UiCall, W!FollowUp, W!call_service_async, W!Refuse, W!Enqueue, W!Invoke,
     W!WakeWorker, W!ros, W!flags, W!ends, P!UiCall, P!FollowUp, P!call_service_async,
     P!Refuse, P!Enqueue, P!Invoke, P!WakeWorker, P!ros, P!flags, P!ends
<1> QED  BY <1>1 DEF P!Next

LEMMA WorkerIsPWorker ==
  ASSUME \/ W!WorkerSleeps \/ W!WorkerExits \/ W!WorkerTakes
         \/ W!ExecFailsEarly \/ W!ExecLooksForServer \/ W!ExecSends
         \/ W!ExecGetsResponse \/ W!ExecGivesUp \/ W!ExecReplies \/ W!CallbackReturns
  PROVE  P!Next
<1> USE DEF W!ros, W!flags, W!exec, W!ends, W!Report, W!Invoke,
            P!ros, P!flags, P!exec, P!ends, P!Report, P!Invoke
<1>1. CASE W!WorkerSleeps
  BY <1>1, Zenon DEF W!WorkerSleeps, P!WorkerSleeps, P!Worker, P!Next
<1>2. CASE W!WorkerExits
  BY <1>2, Zenon DEF W!WorkerExits, P!WorkerExits, P!Worker, P!Next
<1>3. CASE W!WorkerTakes
  BY <1>3, Zenon DEF W!WorkerTakes, P!WorkerTakes, P!Worker, P!Next
<1>4. CASE W!ExecFailsEarly
  BY <1>4, Zenon DEF W!ExecFailsEarly, P!ExecFailsEarly, P!Worker, P!Next
<1>5. CASE W!ExecLooksForServer
  BY <1>5, Zenon DEF W!ExecLooksForServer, P!ExecLooksForServer, P!Worker, P!Next
<1>6. CASE W!ExecSends
  BY <1>6, Zenon DEF W!ExecSends, P!ExecSends, P!Worker, P!Next
<1>7. CASE W!ExecGetsResponse
  BY <1>7, Zenon DEF W!ExecGetsResponse, P!ExecGetsResponse, P!Worker, P!Next
<1>8. CASE W!ExecGivesUp
  BY <1>8, Zenon DEF W!ExecGivesUp, P!ExecGivesUp, P!Worker, P!Next
<1>9. CASE W!ExecReplies
  BY <1>9, Zenon DEF W!ExecReplies, P!ExecReplies, P!Worker, P!Next
<1>10. CASE W!CallbackReturns
  BY <1>10, Zenon DEF W!CallbackReturns, P!CallbackReturns, P!Worker, P!Next
<1> QED  BY <1>1, <1>2, <1>3, <1>4, <1>5, <1>6, <1>7, <1>8, <1>9, <1>10

LEMMA MainIsPMain ==
  ASSUME W!Start \/ W!StopRequest \/ W!StopGoesOn \/ W!SpinExits
  PROVE  P!Next
<1> USE DEF W!ros, W!flags, W!exec, W!ends, P!ros, P!flags, P!exec, P!ends
<1>1. CASE W!Start
  BY <1>1, Zenon DEF W!Start, P!Start, P!Next
<1>2. CASE W!StopRequest
  BY <1>2, Zenon DEF W!StopRequest, P!StopRequest, P!Next
<1>3. CASE W!StopGoesOn
  BY <1>3, Zenon DEF W!StopGoesOn, W!StopCloses, W!StopNotifies, W!StopJoinsWorker,
     W!StopTearsDown, W!WakeWorker, P!StopGoesOn, P!StopCloses, P!StopNotifies,
     P!StopJoinsWorker, P!StopTearsDown, P!WakeWorker, P!Next
<1>4. CASE W!SpinExits
  BY <1>4, Zenon DEF W!SpinExits, P!SpinExits, P!Next
<1> QED  BY <1>1, <1>2, <1>3, <1>4

LEMMA StepIsPStep == UiSound /\ CallbackSound /\ TypeOK /\ [Next]_vars => [P!Next]_P!vars
<1> SUFFICES ASSUME UiSound, CallbackSound, TypeOK, [Next]_vars PROVE [P!Next]_P!vars
  OBVIOUS
<1>1. UNCHANGED service => UNCHANGED P!vars
  BY DEF service, P!vars, P!ros, P!flags, P!exec, P!ends
<1>2. CASE Ui
  <2>1. CASE SendEnqueues
    BY <2>1, CallIsPCall, CallShape DEF SendEnqueues, UiSound, UiSends, SendOf
  <2>2. CASE CancelEnqueues
    <3>1. [kind |-> "cancel", of |-> ui.of, uuid |-> ui.uuid] \in Calls
      BY <2>2 DEF CancelEnqueues, W!UiCall, W!call_service_async
    <3> QED  BY <2>2, <3>1, CallIsPCall DEF CancelEnqueues
  <2> QED
    BY <1>1, <1>2, <2>1, <2>2 DEF Ui, SendRemembers, SendSubscribes, CancelLooksUp
<1>3. CASE Worker
  <2>1. CASE WorkerWorks \/ WorkerSends \/ WorkerGetsResponse \/ WorkerGivesUp
             \/ WorkerReplies \/ CallbackEnds
    BY <2>1, WorkerIsPWorker DEF WorkerWorks, WorkerSends, WorkerGetsResponse,
       WorkerGivesUp, WorkerReplies, CallbackEnds
  <2>2. CASE CallbackAsks
    <3>1. ResultCall \in Calls
      BY <2>2 DEF CallbackAsks, W!FollowUp, W!call_service_async
    <3> QED  BY <2>2, <3>1, CallIsPCall DEF CallbackAsks
  <2> QED
    BY <1>1, <1>3, <2>1, <2>2 DEF Worker, CallbackForgets, CallbackUnsubscribes, CallbackReports
<1>4. CASE MainAndSpin
  BY <1>4, MainIsPMain DEF MainAndSpin
<1>5. CASE Server
  BY <1>1, <1>5 DEF Server, ServerJudges, ServerCancels, ServerReturns, ServerFinishes, Respond
<1>6. CASE UNCHANGED vars
  BY <1>1, <1>6 DEF vars
<1> QED  BY <1>2, <1>3, <1>4, <1>5, <1>6 DEF Next

(* What is proved of the service worker holds of the one in here.          *)
LEMMA WInvKept == WInv /\ UiSound /\ CallbackSound /\ TypeOK /\ [Next]_vars => WInv'
  BY StepIsPStep, WorkerAssumed, P!NextKeeps, P!QuitSoundKept, P!AccountedKept DEF WInv

\* What follows from the worker's invariant, in the words of this module.
LEMMA WorkerFacts ==
  ASSUME WInv
  PROVE  /\ W!TypeOK
         /\ issued \subseteq Calls /\ answers \in [Calls -> Nat]
         /\ \A c \in Calls : answers[c] \in {0, 1}
         /\ \A c \in Calls \ issued : answers[c] = 0 /\ outcome[c] = "none"
         /\ worker \in {"start", "avail", "await", "reply"} =>
              current \in issued /\ current \in Calls /\ answers[current] = 0
         /\ main \in {"init", "up"} => ~stop_requested /\ ~worker_shutdown
         /\ \A i \in 1..Len(tasks) : tasks[i] \in issued /\ answers[tasks[i]] = 0
<1> USE DEF WInv, P!IInv
<1>1. W!TypeOK
  BY Zenon DEF P!TypeOK, W!TypeOK, P!Running, W!Running, P!Stopping, W!Stopping
<1>2. /\ \A c \in Calls : answers[c] \in {0, 1}
      /\ \A c \in Calls \ issued : answers[c] = 0 /\ outcome[c] = "none"
  BY <1>1 DEF W!TypeOK, P!AtMostOnce, P!UnusedUnanswered, P!Accounted
<1>3. worker \in {"start", "avail", "await", "reply"} =>
        current \in issued /\ current \in Calls /\ answers[current] = 0
  BY <1>1 DEF W!TypeOK, P!HandSound, P!Running
<1>4. main \in {"init", "up"} => ~stop_requested /\ ~worker_shutdown
  BY DEF P!QuitSound
<1>5. \A i \in 1..Len(tasks) : tasks[i] \in issued /\ answers[tasks[i]] = 0
  BY DEF P!QueueSound
<1> QED  BY <1>1, <1>2, <1>3, <1>4, <1>5 DEF W!TypeOK

LEMMA WorkerTypesNext == ASSUME WInv' PROVE W!TypeOK'
  BY Zenon DEF WInv, P!IInv, P!TypeOK, W!TypeOK, P!Running, W!Running, P!Stopping, W!Stopping

\* All of the invariant but what concerns the worker alone.
Own ==
  /\ TypeOK
  /\ UiSound /\ CallsSound /\ CallbackSound /\ ReportSound
  /\ NoGoalLost /\ EntriesSound /\ ServerSound /\ ResultsTruthful /\ OneByOne

(***************************************************************************)
(* The steps of the UI.                                                    *)
(***************************************************************************)
LEMMA RemembersKeeps ==
  ASSUME Inv, WInv', NEW g \in Goals, NEW a \in Actions, SendRemembers(g, a)
  PROVE  Own'
<1> USE DEF Inv
<1>1. /\ main = "up" /\ ui = Idle /\ goalAction[g] = NoAction
      /\ overlapped' = (overlapped \/ \E h \in Goals : goalAction[h] = a /\ Unreported(h))
      /\ goalAction' = [goalAction EXCEPT ![g] = a]
      /\ active' = [active EXCEPT ![a] = g]
      /\ ui' = [step |-> "subscribe", of |-> g, on |-> a, uuid |-> g]
      /\ UNCHANGED <<feedback_sub, cb, reported, result, requests, response, goalState,
                     issued, answers, worker, current, success, main>>
  BY DEF SendRemembers, IsNext, service, server
<1>2. /\ goalAction \in [Goals -> Actions \cup {NoAction}] /\ a # NoAction
      /\ active \in [Actions -> Goals \cup {NoGoal}]
      /\ feedback_sub \in [Actions -> Goals \cup {NoGoal}]
      /\ reported \in [Goals -> Nat]
  BY ActionAssumption DEF TypeOK
<1>3. goalAction'[g] = a /\ \A h \in Goals \ {g} : goalAction'[h] = goalAction[h]
  BY <1>1, <1>2
<1>4. SendOf(g) \notin issued /\ ResultOf(g) \notin issued
  BY <1>1, CallShape DEF CallsSound
<1>5. reported[g] = 0
  BY <1>2, <1>4 DEF ReportSound, Over
<1>6. cb \in Disposing => current.of # g
  BY <1>1, <1>4, WorkerFacts, CallShape DEF CallbackSound, CallsSound, Disposing
<1>7. TypeOK'
  <2>1. /\ goalAction' \in [Goals -> Actions \cup {NoAction}]
        /\ active' \in [Actions -> Goals \cup {NoGoal}]
    BY <1>1, <1>2
  <2>2. ui' \in [step : {"idle", "subscribe", "enqueue", "cancel"},
                 of : Goals \cup Cancels \cup {NoGoal}, on : Actions \cup {NoAction},
                 uuid : Goals \cup {NoGoal, AllGoals}]
    BY <1>1
  <2>3. overlapped' \in BOOLEAN
    BY <1>1, Zenon DEF TypeOK
  <2> QED  BY <1>1, <2>1, <2>2, <2>3, WorkerTypesNext DEF TypeOK
<1>8. UiSound'
  BY <1>1, <1>3, <1>4 DEF UiSound, UiSends
<1>9. (CallsSound /\ CallbackSound /\ ReportSound)'
  BY <1>1, <1>2, <1>3 DEF CallsSound, CallbackSound, ReportSound, Over
<1>10. NoGoalLost'
  BY <1>1, <1>2, <1>3 DEF NoGoalLost, Unreported, Alive, InUi, InCallback, Unanswered, UiSends, Idle
<1>11. EntriesSound'
  <2> SUFFICES ASSUME NEW b \in Actions
               PROVE  /\ active'[b] # NoGoal =>
                           /\ goalAction'[active'[b]] = b /\ reported'[active'[b]] = 0
                           /\ ~(cb' \in {"unsubscribe", "report"} /\ current'.of = active'[b])
                      /\ feedback_sub'[b] # NoGoal =>
                           /\ goalAction'[feedback_sub'[b]] = b /\ reported'[feedback_sub'[b]] = 0
                           /\ ~(cb' = "report" /\ current'.of = feedback_sub'[b])
    BY DEF EntriesSound
  <2>1. active'[b] = IF b = a THEN g ELSE active[b]
    BY <1>1, <1>2
  <2>2. b # NoAction
    BY ActionAssumption
  <2>3. feedback_sub[b] # NoGoal => feedback_sub[b] \in Goals \ {g}
    BY <1>1, <1>2, <2>2 DEF EntriesSound
  <2>4. active[b] # NoGoal => active[b] \in Goals \ {g}
    BY <1>1, <1>2, <2>2 DEF EntriesSound
  <2> QED  BY <1>1, <1>3, <1>5, <1>6, <2>1, <2>3, <2>4 DEF EntriesSound, Disposing
<1>12. ServerSound' /\ ResultsTruthful'
  BY <1>1 DEF ServerSound, ResultsTruthful, Reached, Answered
<1>13. OneByOne'
  BY <1>1, <1>2, <1>3, <1>5, <1>6 DEF OneByOne, Unreported, Pending, Disposing
<1> QED  BY <1>7, <1>8, <1>9, <1>10, <1>11, <1>12, <1>13 DEF Own

LEMMA SubscribesKeeps ==
  ASSUME Inv, WInv', SendSubscribes
  PROVE  Own'
<1> USE DEF Inv
<1>1. /\ ui.step = "subscribe" /\ ui' = [ui EXCEPT !.step = "enqueue"]
      /\ feedback_sub' \in {feedback_sub, [feedback_sub EXCEPT ![ui.on] = ui.of]}
      /\ UNCHANGED <<goalAction, active, cb, reported, result, overlapped, requests, response,
                     goalState, issued, answers, worker, current, success, main>>
  BY DEF SendSubscribes, service, server
<1>2. /\ ui.of \in Goals /\ ui.on \in Actions /\ goalAction[ui.of] = ui.on
      /\ ui.uuid = ui.of /\ main = "up" /\ SendOf(ui.of) \notin issued
      /\ ui'.of = ui.of /\ ui'.on = ui.on /\ ui'.uuid = ui.uuid /\ ui'.step = "enqueue"
      /\ feedback_sub \in [Actions -> Goals \cup {NoGoal}]
      /\ reported \in [Goals -> Nat]
  BY <1>1 DEF UiSound, UiSends, TypeOK
<1>3. reported[ui.of] = 0
  BY <1>2 DEF ReportSound, Over
<1>4. cb \in Disposing => current.of # ui.of
  BY <1>2, WorkerFacts, CallShape DEF CallbackSound, CallsSound, Disposing
<1>5. TypeOK'
  <2>1. feedback_sub' \in [Actions -> Goals \cup {NoGoal}]
    BY <1>1, <1>2
  <2>2. ui' \in [step : {"idle", "subscribe", "enqueue", "cancel"},
                 of : Goals \cup Cancels \cup {NoGoal}, on : Actions \cup {NoAction},
                 uuid : Goals \cup {NoGoal, AllGoals}]
    BY <1>1 DEF TypeOK
  <2>3. overlapped' \in BOOLEAN
    BY <1>1, Zenon DEF TypeOK
  <2> QED  BY <1>1, <2>1, <2>2, <2>3, WorkerTypesNext DEF TypeOK
<1>6. (UiSound /\ CallsSound /\ CallbackSound /\ ReportSound)'
  BY <1>1, <1>2 DEF UiSound, UiSends, CallsSound, CallbackSound, ReportSound, Over
<1>7. NoGoalLost'
  BY <1>1, <1>2 DEF NoGoalLost, Unreported, Alive, InUi, InCallback, Unanswered, UiSends
<1>8. EntriesSound'
  <2>1. \A a \in Actions : feedback_sub'[a] = feedback_sub[a] \/ (a = ui.on /\ feedback_sub'[a] = ui.of)
    BY <1>1, <1>2
  <2> QED  BY <1>1, <1>2, <1>3, <1>4, <2>1 DEF EntriesSound, Disposing
<1>9. (ServerSound /\ ResultsTruthful /\ OneByOne)'
  BY <1>1 DEF ServerSound, ResultsTruthful, Reached, Answered, OneByOne, Unreported, Pending
<1> QED  BY <1>5, <1>6, <1>7, <1>8, <1>9 DEF Own

LEMMA LooksUpKeeps ==
  ASSUME Inv, WInv', NEW k \in Cancels, NEW a \in Actions, CancelLooksUp(k, a)
  PROVE  Own'
<1> USE DEF Inv
<1>1. /\ ui = Idle /\ main = "up" /\ ui'.step = "cancel"
      /\ ui' = [step |-> "cancel", of |-> k, on |-> a,
                uuid |-> IF active[a] = NoGoal THEN AllGoals ELSE active[a]]
      /\ UNCHANGED <<goalAction, active, feedback_sub, cb, reported, result, overlapped, requests,
                     response, goalState, issued, answers, worker, current, success, main>>
  BY DEF CancelLooksUp, service, server
<1>2. TypeOK'
  <2>1. ui' \in [step : {"idle", "subscribe", "enqueue", "cancel"},
                 of : Goals \cup Cancels \cup {NoGoal}, on : Actions \cup {NoAction},
                 uuid : Goals \cup {NoGoal, AllGoals}]
    BY <1>1 DEF TypeOK
  <2>2. overlapped' \in BOOLEAN
    BY <1>1, Zenon DEF TypeOK
  <2> QED  BY <1>1, <2>1, <2>2, WorkerTypesNext DEF TypeOK
<1>3. (UiSound /\ CallsSound /\ CallbackSound /\ ReportSound)'
  BY <1>1 DEF UiSound, UiSends, CallsSound, CallbackSound, ReportSound, Over
<1>4. (NoGoalLost /\ EntriesSound)'
  BY <1>1 DEF NoGoalLost, Unreported, Alive, InUi, InCallback, Unanswered, UiSends, Idle,
     EntriesSound
<1>5. (ServerSound /\ ResultsTruthful /\ OneByOne)'
  BY <1>1 DEF ServerSound, ResultsTruthful, Reached, Answered, OneByOne, Unreported, Pending
<1> QED  BY <1>2, <1>3, <1>4, <1>5 DEF Own

\* While main is up a call is taken, not refused.
LEMMA UiCallTaken ==
  ASSUME WInv, NEW c, W!UiCall(c)
  PROVE  /\ c \in Calls \ issued /\ answers[c] = 0 /\ main = "up"
         /\ issued' = issued \cup {c}
         /\ UNCHANGED <<answers, outcome, current, success, main>>
         /\ worker' = worker \/ (worker = "asleep" /\ worker' = "loop")
<1>1. ~stop_requested /\ ~worker_shutdown /\ main = "up"
  BY WorkerFacts DEF W!UiCall
<1>2. W!Enqueue(c) /\ c \in Calls \ issued /\ issued' = issued \cup {c}
  BY <1>1 DEF W!UiCall, W!call_service_async, W!Refuse
<1> QED
  BY <1>1, <1>2, WorkerFacts DEF W!UiCall, W!call_service_async, W!Enqueue, W!WakeWorker,
     W!ends

LEMMA UiCallKeeps ==
  ASSUME Inv, WInv', SendEnqueues \/ CancelEnqueues
  PROVE  Own'
<1> USE DEF Inv
<1>1. PICK c : /\ W!UiCall(c)
               /\ \/ ui.step = "enqueue" /\ c = [kind |-> "send", of |-> ui.of, uuid |-> ui.uuid]
                  \/ ui.step = "cancel" /\ c = [kind |-> "cancel", of |-> ui.of, uuid |-> ui.uuid]
  BY DEF SendEnqueues, CancelEnqueues
<1>2. /\ ui' = Idle
      /\ UNCHANGED <<goalAction, active, feedback_sub, cb, reported, result, overlapped,
                     requests, response, goalState>>
  BY DEF SendEnqueues, CancelEnqueues, server
<1>3. /\ c \in Calls \ issued /\ answers[c] = 0 /\ main = "up"
      /\ issued' = issued \cup {c}
      /\ UNCHANGED <<answers, outcome, current, success, main>>
      /\ worker' = worker \/ (worker = "asleep" /\ worker' = "loop")
  BY <1>1, UiCallTaken
<1>4. \/ ui.step = "enqueue" /\ ui.of \in Goals /\ c = SendOf(ui.of) /\ c.kind = "send"
         /\ c.of = ui.of /\ goalAction[ui.of] # NoAction
      \/ ui.step = "cancel" /\ c.kind = "cancel"
  BY <1>1, ActionAssumption DEF UiSound, UiSends, SendOf
<1>5. \A g \in Goals : c # ResultOf(g) /\ (c.kind = "cancel" => c # SendOf(g))
  BY <1>4, CallShape
<1>6. TypeOK'
  <2>1. ui' \in [step : {"idle", "subscribe", "enqueue", "cancel"},
                 of : Goals \cup Cancels \cup {NoGoal}, on : Actions \cup {NoAction},
                 uuid : Goals \cup {NoGoal, AllGoals}]
    BY <1>2 DEF Idle
  <2>2. overlapped' \in BOOLEAN /\ response' \in BOOLEAN
    BY <1>2, Zenon DEF TypeOK
  <2> QED  BY <1>2, <2>1, <2>2, WorkerTypesNext DEF TypeOK
<1>7. UiSound'
  BY <1>2 DEF UiSound, UiSends, Idle
<1>8. CallsSound'
  BY <1>2, <1>3, <1>4 DEF CallsSound
<1>9. (CallbackSound /\ ReportSound)'
  <2>1. CallbackSound'
    <3>1. worker' = "callback" <=> worker = "callback"
      BY <1>3
    <3>2. cb \in Disposing => current.of \in Goals
      BY WorkerFacts, CallShape DEF CallbackSound, Disposing
    <3> QED  BY <1>2, <1>3, <1>5, <3>1, <3>2 DEF CallbackSound, Disposing
  <2>2. ReportSound'
    BY <1>2, <1>3, <1>5 DEF ReportSound, Over
  <2> QED  BY <2>1, <2>2
<1>10. NoGoalLost'
  BY <1>2, <1>3, <1>4 DEF NoGoalLost, Unreported, Alive, InUi, InCallback, Unanswered, UiSends, Idle
<1>11. EntriesSound' /\ OneByOne'
  BY <1>2, <1>3 DEF EntriesSound, OneByOne, Unreported, Pending
<1>12. ServerSound' /\ ResultsTruthful'
  BY <1>2, <1>3 DEF ServerSound, ResultsTruthful, Reached, Answered
<1> QED  BY <1>6, <1>7, <1>8, <1>9, <1>10, <1>11, <1>12 DEF Own

(***************************************************************************)
(* The steps of the worker.                                                *)
(***************************************************************************)
LEMMA WorksKeeps ==
  ASSUME Inv, WInv', WorkerWorks
  PROVE  Own'
<1> USE DEF Inv
<1>1. /\ worker \notin {"await", "reply", "callback"} /\ worker' \notin {"await", "callback"}
      /\ worker' = "reply" => ~success'
      /\ UNCHANGED <<goalAction, active, feedback_sub, ui, cb, reported, result, overlapped,
                     requests, response, goalState, issued, answers, main>>
  BY DEF WorkerWorks, own, server, W!WorkerSleeps, W!WorkerExits, W!WorkerTakes,
     W!ExecFailsEarly, W!ExecLooksForServer, W!Report, W!ends
<1>2. cb = "none" /\ ~response
  BY <1>1, Zenon DEF CallbackSound, ServerSound
<1>3. TypeOK'
  <2>1. overlapped' \in BOOLEAN /\ response' \in BOOLEAN
    BY <1>1, Zenon DEF TypeOK
  <2> QED  BY <1>1, <2>1, WorkerTypesNext DEF TypeOK
<1>4. (UiSound /\ CallsSound /\ CallbackSound /\ ReportSound)'
  BY <1>1, <1>2 DEF UiSound, UiSends, CallsSound, CallbackSound, ReportSound, Over, Disposing
<1>5. (NoGoalLost /\ EntriesSound)'
  BY <1>1, <1>2 DEF NoGoalLost, Unreported, Alive, InUi, InCallback, Unanswered, UiSends,
     EntriesSound, Disposing
<1>6. ServerSound' /\ ResultsTruthful'
  BY <1>1, <1>2 DEF ServerSound, ResultsTruthful, Reached, Answered
<1>7. OneByOne'
  BY <1>1, <1>2 DEF OneByOne, Unreported, Pending
<1> QED  BY <1>3, <1>4, <1>5, <1>6, <1>7 DEF Own

\* The steps of execute_service_call that touch the server's side keep the rest.
LEMMA ExecKeeps ==
  ASSUME Inv, WInv', WorkerSends \/ WorkerGetsResponse \/ WorkerGivesUp
  PROVE  /\ TypeOK' /\ UiSound' /\ CallsSound' /\ CallbackSound' /\ ReportSound'
         /\ NoGoalLost' /\ EntriesSound' /\ ResultsTruthful' /\ OneByOne'
<1> USE DEF Inv
<1>1. /\ worker \in {"avail", "await"} /\ worker' \in {"await", "reply"}
      /\ requests' \in {requests, requests \cup {current}}
      /\ response' = response \/ response' = FALSE
      /\ UNCHANGED <<goalAction, active, feedback_sub, ui, cb, reported, result, overlapped,
                     goalState, issued, answers, main, current>>
  BY Zenon DEF WorkerSends, WorkerGetsResponse, WorkerGivesUp, own, W!ExecSends,
     W!ExecGetsResponse, W!ExecGivesUp, W!Report, W!ends
<1>2. cb = "none" /\ current \in Calls
  BY <1>1, WorkerFacts DEF CallbackSound
<1>3. TypeOK'
  <2>1. overlapped' \in BOOLEAN /\ response' \in BOOLEAN
    BY <1>1, Zenon DEF TypeOK
  <2>2. requests' \in SUBSET Calls
    BY <1>1, <1>2 DEF TypeOK
  <2> QED  BY <1>1, <2>1, <2>2, WorkerTypesNext DEF TypeOK
<1>4. (UiSound /\ CallsSound /\ CallbackSound /\ ReportSound)'
  BY <1>1, <1>2 DEF UiSound, UiSends, CallsSound, CallbackSound, ReportSound, Over, Disposing
<1>5. (NoGoalLost /\ EntriesSound /\ ResultsTruthful /\ OneByOne)'
  BY <1>1, <1>2 DEF NoGoalLost, Unreported, Alive, InUi, InCallback, Unanswered, UiSends,
     EntriesSound, Disposing, ResultsTruthful, OneByOne, Pending
<1> QED  BY <1>3, <1>4, <1>5

LEMMA ExecServerKeeps ==
  ASSUME Inv, WorkerSends \/ WorkerGetsResponse \/ WorkerGivesUp
  PROVE  ServerSound'
<1> USE DEF Inv
<1>1. CASE WorkerSends
  <2>1. /\ worker = "avail" /\ worker' = "await" /\ requests' = requests \cup {current}
        /\ UNCHANGED <<response, goalState, issued, answers, current>>
    BY <1>1 DEF WorkerSends, W!ExecSends, W!ends
  <2>2. current \in issued /\ current \in Calls /\ answers[current] = 0
    BY <2>1, WorkerFacts
  <2>3. \A g \in Goals : current = SendOf(g) => ~Reached(g)
    BY <2>1, <2>2 DEF ServerSound
  <2>4. ~response
    BY <2>1, Zenon DEF ServerSound
  <2> QED  BY <2>1, <2>2, <2>3, <2>4 DEF ServerSound, Reached, Answered
<1>2. CASE WorkerGetsResponse
  <2>1. /\ worker = "await" /\ worker' = "reply" /\ response /\ ~response'
        /\ UNCHANGED <<requests, goalState, issued, answers, current>>
    BY <1>2 DEF WorkerGetsResponse, W!ExecGetsResponse, W!Report, W!ends
  <2> QED  BY <2>1 DEF ServerSound, Reached, Answered
<1>3. CASE WorkerGivesUp
  <2>1. /\ worker \in {"avail", "await"} /\ worker' = "reply" /\ ~response' /\ ~success'
        /\ UNCHANGED <<requests, goalState, issued, answers, current>>
    BY <1>3 DEF WorkerGivesUp, W!ExecGivesUp, W!Report, W!ends
  <2> QED  BY <2>1 DEF ServerSound, Reached, Answered
<1> QED  BY <1>1, <1>2, <1>3

LEMMA RepliesKeeps ==
  ASSUME Inv, WInv', WorkerReplies
  PROVE  Own'
<1> USE DEF Inv
<1>1. /\ worker = "reply" /\ worker' = "callback" /\ cb' = FirstCallbackStep
      /\ answers' = [answers EXCEPT ![current] = @ + 1]
      /\ UNCHANGED <<goalAction, active, feedback_sub, ui, reported, result, overlapped,
                     requests, response, goalState, issued, main, current, success>>
  BY DEF WorkerReplies, server, W!ExecReplies, W!Invoke
<1>2. /\ current \in issued /\ current \in Calls /\ answers[current] = 0
      /\ cb = "none" /\ issued \subseteq Calls
  BY <1>1, WorkerFacts DEF CallbackSound
<1>3. answers'[current] = 1 /\ \A c \in Calls \ {current} : answers'[c] = answers[c]
  BY <1>1, <1>2, WorkerFacts
<1>4. /\ cb' \in {"done", "ask", "forget"}
      /\ cb' = "ask" => current.kind = "send"
      /\ cb' = "done" <=> current.kind = "cancel"
  BY <1>1 DEF FirstCallbackStep
<1>5. /\ current.kind \in {"send", "result", "cancel"}
      /\ current.kind # "cancel" => current.of \in Goals
      /\ current.kind = "send" => current = SendOf(current.of)
      /\ current.kind = "result" => current = ResultOf(current.of)
      /\ \A g \in Goals : (current = SendOf(g) \/ current = ResultOf(g)) =>
           current.of = g /\ current.kind # "cancel"
  BY <1>2, CallShape DEF CallsSound
<1>6. current.kind # "cancel" => reported[current.of] = 0
  <2>1. current.kind # "cancel" => ~Over(current.of)
    BY <1>2, <1>5 DEF Over
  <2>2. \A g \in Goals : reported[g] \in Nat /\ reported[g] <= 1 /\ (~Over(g) => reported[g] # 1)
    BY DEF ReportSound, TypeOK
  <2> QED  BY <2>1, <2>2, <1>5
<1>7. \A g \in Goals : SendOf(g) \in Calls /\ ResultOf(g) \in Calls
  BY CallShape
<1>8. current.kind = "send" => ResultOf(current.of) \notin issued
  BY <1>2, <1>5, CallShape DEF CallsSound
<1>9. TypeOK'
  <2>1. overlapped' \in BOOLEAN /\ response' \in BOOLEAN
    BY <1>1, Zenon DEF TypeOK
  <2> QED  BY <1>1, <1>4, <2>1, WorkerTypesNext DEF TypeOK
<1>10. UiSound' /\ CallsSound'
  BY <1>1, <1>2, <1>3, CallShape DEF UiSound, CallsSound
<1>11. CallbackSound'
  BY <1>1, <1>2, <1>3, <1>4, <1>5, <1>6, <1>8 DEF CallbackSound, Disposing
<1>12. ReportSound'
  BY <1>1, <1>2, <1>3, <1>7 DEF ReportSound, Over
<1>13. NoGoalLost'
  BY <1>1, <1>2, <1>3, <1>4, <1>5, <1>7 DEF NoGoalLost, Unreported, Alive, InUi, InCallback,
     Unanswered, UiSends, Disposing
<1>14. EntriesSound' /\ OneByOne'
  BY <1>1, <1>2, <1>4 DEF EntriesSound, OneByOne, Unreported, Pending
<1>15. ServerSound' /\ ResultsTruthful'
  BY <1>1, <1>2, <1>3, <1>7 DEF ServerSound, ResultsTruthful, Reached, Answered
<1> QED  BY <1>9, <1>10, <1>11, <1>12, <1>13, <1>14, <1>15 DEF Own

\* The callback of an accepted send_goal asks for the result.  A refusal, which
\* comes only while the manager stops, answers the new call at once.
LEMMA AsksKeeps ==
  ASSUME Inv, WInv', CallbackAsks
  PROVE  Own'
<1> USE DEF Inv
<1> DEFINE g == current.of
           r == ResultOf(g)
<1>1. /\ cb = "ask" /\ worker = "callback" /\ r \notin issued
      /\ current \in issued /\ current \in Calls /\ answers[current] = 1
      /\ current.kind = "send" /\ current = SendOf(g) /\ g \in Goals /\ reported[g] = 0
  BY WorkerFacts, CallShape DEF CallbackAsks, CallbackSound, Disposing
<1>2. ResultCall = r /\ r \in Calls /\ r.kind = "result" /\ r.of = g /\ r.uuid = g
  BY <1>1, CallShape DEF ResultCall, ResultOf
<1>3. \A h \in Goals : r # SendOf(h) /\ (r = ResultOf(h) => h = g)
  BY <1>2, CallShape
<1>4. /\ answers[r] = 0 /\ outcome[r] = "none"
      /\ answers \in [Calls -> Nat] /\ outcome \in [Calls -> {"none", "ok", "failed", "refused"}]
  BY <1>1, <1>2, WorkerFacts DEF W!TypeOK
<1>5. /\ worker' = "callback" /\ issued' = issued \cup {r}
      /\ UNCHANGED <<goalAction, active, feedback_sub, ui, reported, result, overlapped,
                     requests, response, goalState, main, current, success>>
      /\ \A c \in Calls \ {r} : answers'[c] = answers[c]
      /\ \/ cb' = "forget" /\ answers'[r] = 1
         \/ cb' = "done" /\ answers'[r] = 0
  <2>1. /\ issued' = issued \cup {r}
        /\ W!Refuse(r) \/ W!Enqueue(r)
        /\ cb' = IF outcome'[r] = "refused" THEN "forget" ELSE "done"
        /\ UNCHANGED <<goalAction, active, feedback_sub, ui, reported, result, overlapped,
                       requests, response, goalState, main, current, success>>
    BY <1>2 DEF CallbackAsks, server, W!FollowUp, W!call_service_async
  <2>2. CASE W!Refuse(r)
    BY <1>1, <1>2, <1>4, <2>1, <2>2 DEF W!Refuse, W!Invoke
  <2>3. CASE W!Enqueue(r)
    BY <1>1, <1>2, <1>4, <2>1, <2>3 DEF W!Enqueue, W!WakeWorker, W!ends
  <2> QED  BY <2>1, <2>2, <2>3
<1>6. \A h \in Goals : SendOf(h) \in Calls /\ ResultOf(h) \in Calls
  BY CallShape
<1>7. issued \subseteq Calls /\ answers'[current] = answers[current] /\ current # r
  BY <1>1, <1>3, <1>5, WorkerFacts
<1>8. TypeOK'
  <2>1. overlapped' \in BOOLEAN /\ response' \in BOOLEAN
    BY <1>5, Zenon DEF TypeOK
  <2> QED  BY <1>5, <2>1, WorkerTypesNext DEF TypeOK
<1> HIDE DEF r, g
<1>9. UiSound'
  BY <1>3, <1>5 DEF UiSound
<1>10. CallsSound'
  <2>1. \A c \in issued : c # r
    BY <1>1
  <2>2. ASSUME NEW c \in issued, c.kind = "result" PROVE SendOf(c.of) \in Calls \ {r}
    BY <1>3, <1>7, <2>2, CallShape
  <2>3. SendOf(g) \in issued' /\ answers'[SendOf(g)] = 1
    BY <1>1, <1>5, <1>7
  <2> QED  BY <1>1, <1>2, <1>5, <2>1, <2>2, <2>3 DEF CallsSound
<1>11. CallbackSound'
  BY <1>1, <1>2, <1>5, <1>7 DEF CallbackSound, Disposing, r, g
<1>12. ReportSound'
  BY <1>1, <1>3, <1>5, <1>6 DEF ReportSound, Over
<1>13. NoGoalLost'
  BY <1>1, <1>3, <1>5, <1>6 DEF NoGoalLost, Unreported, Alive, InUi, InCallback,
     Unanswered, UiSends, Disposing, r, g
<1>14. EntriesSound' /\ OneByOne'
  BY <1>1, <1>5 DEF EntriesSound, OneByOne, Unreported, Pending
<1>15. ServerSound' /\ ResultsTruthful'
  BY <1>1, <1>3, <1>5, <1>6 DEF ServerSound, ResultsTruthful, Reached, Answered
<1> QED  BY <1>8, <1>9, <1>10, <1>11, <1>12, <1>13, <1>14, <1>15 DEF Own

\* Where the callback is when it disposes of goal g.
LEMMA DisposingFacts ==
  ASSUME Inv, cb \in Disposing
  PROVE  /\ worker = "callback" /\ current \in issued /\ current \in Calls
         /\ current.of \in Goals /\ goalAction[current.of] \in Actions
         /\ reported[current.of] = 0 /\ Unreported(current.of) /\ Over(current.of)
<1> USE DEF Inv
<1>1. worker = "callback" /\ current \in issued /\ current \in Calls /\ answers[current] = 1
      /\ current.kind \in {"send", "result"} /\ reported[current.of] = 0
  BY WorkerFacts DEF CallbackSound, Disposing
<1>2. /\ current.of \in Goals
      /\ current.kind = "send" => current = SendOf(current.of)
      /\ current.kind = "result" => current = ResultOf(current.of)
  BY <1>1, CallShape DEF CallsSound
<1>3. SendOf(current.of) \in issued /\ answers[SendOf(current.of)] = 1
  BY <1>1, <1>2 DEF CallsSound
<1>4. goalAction[current.of] # NoAction
  BY <1>2, <1>3, CallShape DEF CallsSound
<1>5. goalAction[current.of] \in Actions
  BY <1>2, <1>4 DEF TypeOK
<1>6. Over(current.of)
  BY <1>3 DEF CallbackSound, Over
<1> QED  BY <1>1, <1>2, <1>4, <1>5, <1>6 DEF Unreported

LEMMA ForgetsKeeps ==
  ASSUME Inv, WInv', CallbackForgets \/ CallbackUnsubscribes
  PROVE  Own'
<1> USE DEF Inv
<1> DEFINE g == current.of
           a == goalAction[g]
<1>1. /\ cb \in {"forget", "unsubscribe"}
      /\ UNCHANGED <<goalAction, ui, reported, result, overlapped, requests, response,
                     goalState, issued, answers, main, worker, current, success>>
      /\ \/ cb = "forget" /\ cb' = "unsubscribe" /\ feedback_sub' = feedback_sub
            /\ active' = [active EXCEPT ![a] = NoGoal]
         \/ cb = "unsubscribe" /\ cb' = "report" /\ active' = active
            /\ feedback_sub' = [feedback_sub EXCEPT ![a] = NoGoal]
  BY DEF CallbackForgets, CallbackUnsubscribes, service, server
<1>2. /\ worker = "callback" /\ g \in Goals /\ a \in Actions /\ Unreported(g)
      /\ cb \in Disposing /\ cb' \in Disposing
  BY <1>1, DisposingFacts DEF Disposing
<1>3. /\ active \in [Actions -> Goals \cup {NoGoal}]
      /\ feedback_sub \in [Actions -> Goals \cup {NoGoal}]
  BY DEF TypeOK
<1>4. /\ cb = "forget" => \A b \in Actions : active'[b] = IF b = a THEN NoGoal ELSE active[b]
      /\ cb = "unsubscribe" =>
           \A b \in Actions : feedback_sub'[b] = IF b = a THEN NoGoal ELSE feedback_sub[b]
  BY <1>1, <1>2, <1>3
<1>5. TypeOK'
  <2>1. overlapped' \in BOOLEAN /\ response' \in BOOLEAN
    BY <1>1, Zenon DEF TypeOK
  <2>2. /\ active' \in [Actions -> Goals \cup {NoGoal}]
        /\ feedback_sub' \in [Actions -> Goals \cup {NoGoal}]
    BY <1>1, <1>3
  <2> QED  BY <1>1, <2>1, <2>2, WorkerTypesNext DEF TypeOK
<1>6. (UiSound /\ CallsSound /\ ReportSound)'
  BY <1>1 DEF UiSound, UiSends, CallsSound, ReportSound, Over
<1>7. CallbackSound'
  BY <1>1, <1>2 DEF CallbackSound, Disposing
<1>8. NoGoalLost'
  BY <1>1, <1>2 DEF NoGoalLost, Unreported, Alive, InUi, InCallback, Unanswered
<1>9. EntriesSound'
  <2>1. CASE cb = "forget"
    BY <1>1, <1>4, <2>1 DEF EntriesSound
  <2>2. CASE cb = "unsubscribe"
    BY <1>1, <1>4, <2>2 DEF EntriesSound
  <2> QED  BY <1>1, <2>1, <2>2
<1>10. ServerSound' /\ ResultsTruthful'
  BY <1>1 DEF ServerSound, ResultsTruthful, Reached, Answered
<1>11. OneByOne'
  <2> SUFFICES ASSUME ~overlapped PROVE OneByOne'
    BY <1>1 DEF OneByOne
  <2>1. \A h, i \in Goals :
          Unreported(h)' /\ Unreported(i)' /\ goalAction'[h] = goalAction'[i] => h = i
    BY <1>1 DEF OneByOne, Unreported
  <2>2. ASSUME NEW h \in Goals, Pending(h)' PROVE active'[goalAction'[h]] = h
    <3>1. h # g /\ Unreported(h) /\ Pending(h)
      BY <1>1, <2>2 DEF Pending, Unreported
    <3>2. active[goalAction[h]] = h /\ goalAction[h] # a
      BY <1>2, <3>1 DEF OneByOne
    <3>3. goalAction[h] \in Actions
      BY <3>1 DEF Unreported, TypeOK
    <3> QED  BY <1>1, <1>4, <3>2, <3>3
  <2> QED  BY <2>1, <2>2 DEF OneByOne
<1> QED  BY <1>5, <1>6, <1>7, <1>8, <1>9, <1>10, <1>11 DEF Own

LEMMA ReportsKeeps ==
  ASSUME Inv, WInv', CallbackReports
  PROVE  Own'
<1> USE DEF Inv
<1> DEFINE g == current.of
<1>1. /\ cb = "report" /\ cb' = "done"
      /\ reported' = [reported EXCEPT ![g] = @ + 1]
      /\ UNCHANGED <<goalAction, active, feedback_sub, ui, overlapped, requests, response,
                     goalState, issued, answers, main, worker, current, success>>
  BY DEF CallbackReports, service, server
<1>2. PICK v \in Verdicts : result' = [result EXCEPT ![g] = v]
  BY DEF CallbackReports
<1>3. worker = "callback" /\ current \in issued /\ current \in Calls
      /\ g \in Goals /\ reported[g] = 0 /\ Over(g)
  BY <1>1, DisposingFacts DEF Disposing
<1>4. /\ reported \in [Goals -> Nat]
      /\ result \in [Goals -> {"none", "failed", "rejected", "unreadable"} \cup Final]
      /\ goalState \in [Goals -> {"unknown", "rejected", "executing"} \cup Final]
  BY DEF TypeOK
<1>5. \A h \in Goals : reported'[h] = IF h = g THEN 1 ELSE reported[h]
  BY <1>1, <1>3, <1>4
<1>6. /\ v \in {"none", "failed", "rejected", "unreadable"} \cup Final
      /\ v \in Final \cup {"rejected"} => v = goalState[g]
  <2>1. current.uuid = g /\ current.kind \in {"send", "result"}
    BY <1>1, <1>3, CallShape DEF CallsSound, CallbackSound, Disposing
  <2>2. "failed" \notin Final /\ "unreadable" \notin Final
    BY ActionAssumption DEF Final
  <2>3. CASE ~success
    BY <2>2, <2>3 DEF Verdicts
  <2>4. CASE success /\ current.kind = "send"
    BY <2>1, <2>2, <2>4 DEF Verdicts
  <2>5. CASE success /\ current.kind = "result"
    <3>1. goalState[g] \in Final
      BY <1>3, <2>1, <2>5 DEF ServerSound, Answered
    <3>2. v \in {goalState[g], "unreadable"}
      BY <2>1, <2>5 DEF Verdicts
    <3> QED  BY <2>2, <3>1, <3>2
  <2> QED  BY <2>1, <2>3, <2>4, <2>5
<1>7. \A h \in Goals : result'[h] = IF h = g THEN v ELSE result[h]
  BY <1>2, <1>3, <1>4
<1>8. TypeOK'
  <2>1. overlapped' \in BOOLEAN /\ response' \in BOOLEAN
    BY <1>1, Zenon DEF TypeOK
  <2>2. reported' \in [Goals -> Nat]
    BY <1>1, <1>3, <1>4
  <2>3. result' \in [Goals -> {"none", "failed", "rejected", "unreadable"} \cup Final]
    BY <1>2, <1>3, <1>4, <1>6
  <2> QED  BY <1>1, <2>1, <2>2, <2>3, WorkerTypesNext DEF TypeOK
<1> HIDE DEF g
<1>9. (UiSound /\ CallsSound)'
  BY <1>1 DEF UiSound, UiSends, CallsSound
<1>10. CallbackSound'
  BY <1>1, <1>3 DEF CallbackSound, Disposing
<1>11. ReportSound'
  BY <1>1, <1>3, <1>5 DEF ReportSound, Over
<1>12. NoGoalLost'
  BY <1>1, <1>5 DEF NoGoalLost, Unreported, Alive, InUi, InCallback, Unanswered, g
<1>13. EntriesSound'
  <2>1. \A a \in Actions : active[a] # g /\ feedback_sub[a] # g
    BY <1>1, <1>3, ActionAssumption DEF EntriesSound, g
  <2>2. \A a \in Actions : active[a] \in Goals \cup {NoGoal} /\ feedback_sub[a] \in Goals \cup {NoGoal}
    BY DEF TypeOK
  <2> QED  BY <1>1, <1>5, <2>1, <2>2 DEF EntriesSound
<1>14. ServerSound'
  BY <1>1 DEF ServerSound, Reached, Answered
<1>15. ResultsTruthful'
  BY <1>1, <1>6, <1>7 DEF ResultsTruthful
<1>16. OneByOne'
  BY <1>1, <1>5 DEF OneByOne, Unreported, Pending, g
<1> QED  BY <1>8, <1>9, <1>10, <1>11, <1>12, <1>13, <1>14, <1>15, <1>16 DEF Own

LEMMA EndsKeeps ==
  ASSUME Inv, WInv', CallbackEnds
  PROVE  Own'
<1> USE DEF Inv
<1>1. /\ cb = "done" /\ cb' = "none" /\ worker = "callback" /\ worker' = "loop"
      /\ UNCHANGED <<goalAction, active, feedback_sub, ui, reported, result, overlapped, requests,
                     response, goalState, issued, answers, main>>
  BY DEF CallbackEnds, server, W!CallbackReturns, W!ends
<1>2. ~response
  BY <1>1, Zenon DEF ServerSound
<1>3. TypeOK'
  <2>1. overlapped' \in BOOLEAN /\ response' \in BOOLEAN
    BY <1>1, Zenon DEF TypeOK
  <2> QED  BY <1>1, <2>1, WorkerTypesNext DEF TypeOK
<1>4. (UiSound /\ CallsSound /\ CallbackSound /\ ReportSound)'
  BY <1>1 DEF UiSound, UiSends, CallsSound, CallbackSound, ReportSound, Over, Disposing
<1>5. (NoGoalLost /\ EntriesSound)'
  BY <1>1 DEF NoGoalLost, Unreported, Alive, InUi, InCallback, Unanswered, EntriesSound, Disposing
<1>6. ServerSound' /\ ResultsTruthful'
  BY <1>1, <1>2 DEF ServerSound, ResultsTruthful, Reached, Answered
<1>7. OneByOne'
  BY <1>1 DEF OneByOne, Unreported, Pending
<1> QED  BY <1>3, <1>4, <1>5, <1>6, <1>7 DEF Own

(***************************************************************************)
(* The steps of main, of the spin thread and of the action server.         *)
(***************************************************************************)
LEMMA MainKeeps ==
  ASSUME Inv, WInv', MainAndSpin
  PROVE  Own'
<1> USE DEF Inv
<1>1. /\ UNCHANGED <<goalAction, active, feedback_sub, ui, cb, reported, result, overlapped,
                     requests, response, goalState, issued, answers, current, success>>
      /\ worker' = worker \/ (worker = "asleep" /\ worker' = "loop")
      /\ main' = main \/ main # "up" \/ ui = Idle
  BY DEF MainAndSpin, own, server, W!Start, W!StopRequest, W!StopGoesOn, W!StopCloses,
     W!StopNotifies, W!StopJoinsWorker, W!StopTearsDown, W!SpinExits, W!WakeWorker, W!exec, W!ends
<1>2. TypeOK'
  <2>1. overlapped' \in BOOLEAN /\ response' \in BOOLEAN
    BY <1>1, Zenon DEF TypeOK
  <2> QED  BY <1>1, <2>1, WorkerTypesNext DEF TypeOK
<1>3. UiSound'
  BY <1>1 DEF UiSound, UiSends, Idle
<1>4. (CallsSound /\ ReportSound)'
  BY <1>1 DEF CallsSound, ReportSound, Over
<1>5. CallbackSound'
  <2>1. worker' = "callback" <=> worker = "callback"
    BY <1>1
  <2> QED  BY <1>1, <2>1 DEF CallbackSound
<1>6. (NoGoalLost /\ EntriesSound)'
  BY <1>1 DEF NoGoalLost, Unreported, Alive, InUi, InCallback, Unanswered, EntriesSound
<1>7. ServerSound'
  BY <1>1 DEF ServerSound, Reached, Answered
<1>8. ResultsTruthful' /\ OneByOne'
  BY <1>1 DEF ResultsTruthful, OneByOne, Unreported, Pending
<1> QED  BY <1>2, <1>3, <1>4, <1>5, <1>6, <1>7, <1>8 DEF Own

\* A goal is judged once, when its request is taken, and a judged goal that
\* executes may end.
Advances(h) ==
  \/ goalState'[h] = goalState[h]
  \/ goalState[h] = "unknown" /\ goalState'[h] \in {"executing", "rejected"}
     /\ SendOf(h) \in requests /\ SendOf(h) \notin requests'
  \/ goalState[h] = "executing" /\ goalState'[h] \in Final

LEMMA ServerAdvances ==
  ASSUME Inv, Server
  PROVE  /\ \A h \in Goals : Advances(h)
         /\ goalState' \in [Goals -> {"unknown", "rejected", "executing"} \cup Final]
         /\ requests' \subseteq requests /\ response' \in BOOLEAN
         /\ response' => response \/ (worker = "await" /\ Answered(current)')
         /\ UNCHANGED <<service, own>>
<1> USE DEF Inv
<1>1. /\ goalState \in [Goals -> {"unknown", "rejected", "executing"} \cup Final]
      /\ requests \subseteq Calls /\ response \in BOOLEAN
  BY Zenon DEF TypeOK
<1>2. ASSUME NEW c \in requests, ServerJudges(c) \/ ServerCancels(c) \/ ServerReturns(c)
      PROVE  /\ requests' = requests \ {c} /\ UNCHANGED <<service, own>>
             /\ response' = (response \/ (worker = "await" /\ current = c))
  BY <1>2 DEF ServerJudges, ServerCancels, ServerReturns, Respond
<1>3. ASSUME NEW c \in requests, ServerJudges(c)
      PROVE  /\ \A h \in Goals : Advances(h)
             /\ goalState' \in [Goals -> {"unknown", "rejected", "executing"} \cup Final]
             /\ Answered(c)'
  <2>1. PICK s \in {"executing", "rejected"} : goalState' = [goalState EXCEPT ![c.uuid] = s]
    BY <1>3 DEF ServerJudges
  <2>2. c.uuid \in Goals /\ c = SendOf(c.uuid) /\ c.kind = "send"
    BY <1>1, <1>3, CallShape DEF ServerJudges
  <2>3. goalState[c.uuid] = "unknown"
    BY <2>2 DEF ServerSound
  <2>4. goalState'[c.uuid] = s /\ \A h \in Goals \ {c.uuid} : goalState'[h] = goalState[h]
    BY <1>1, <2>1, <2>2
  <2>5. requests' = requests \ {c}
    BY <1>2, <1>3
  <2> QED  BY <1>1, <2>1, <2>2, <2>3, <2>4, <2>5 DEF Advances, Answered
<1>4. ASSUME NEW c \in requests, ServerCancels(c)
      PROVE  /\ \A h \in Goals : Advances(h)
             /\ goalState' \in [Goals -> {"unknown", "rejected", "executing"} \cup Final]
             /\ Answered(c)'
  <2>1. c.kind = "cancel"
    BY <1>4 DEF ServerCancels
  <2>2. PICK gs \in SUBSET CancelledBy(c) :
               goalState' = [h \in Goals |-> IF h \in gs THEN "canceled" ELSE goalState[h]]
    BY <1>4 DEF ServerCancels
  <2>3. \A h \in gs : goalState[h] = "executing"
    BY <2>2 DEF CancelledBy
  <2> QED  BY <1>1, <2>1, <2>2, <2>3 DEF Advances, Answered, Final
<1>5. ASSUME NEW c \in requests, ServerReturns(c)
      PROVE  /\ \A h \in Goals : Advances(h)
             /\ goalState' \in [Goals -> {"unknown", "rejected", "executing"} \cup Final]
             /\ Answered(c)'
  BY <1>1, <1>5 DEF ServerReturns, Advances, Answered
<1>6. ASSUME NEW g \in Goals, ServerFinishes(g)
      PROVE  /\ \A h \in Goals : Advances(h)
             /\ goalState' \in [Goals -> {"unknown", "rejected", "executing"} \cup Final]
             /\ UNCHANGED <<service, own, requests, response>>
  BY <1>1, <1>6 DEF ServerFinishes, Advances, Final
<1>7. ASSUME NEW c \in requests, ServerJudges(c) \/ ServerCancels(c) \/ ServerReturns(c)
      PROVE  /\ \A h \in Goals : Advances(h)
             /\ goalState' \in [Goals -> {"unknown", "rejected", "executing"} \cup Final]
             /\ requests' \subseteq requests /\ response' \in BOOLEAN
             /\ response' => response \/ (worker = "await" /\ Answered(current)')
             /\ UNCHANGED <<service, own>>
  <2>1. /\ \A h \in Goals : Advances(h)
        /\ goalState' \in [Goals -> {"unknown", "rejected", "executing"} \cup Final]
        /\ Answered(c)'
    BY <1>3, <1>4, <1>5, <1>7
  <2>2. /\ requests' = requests \ {c} /\ UNCHANGED <<service, own>>
        /\ response' = (response \/ (worker = "await" /\ current = c))
    BY <1>2, <1>7
  <2>3. current' = current
    BY <2>2 DEF service
  <2>4. current = c => Answered(current)'
    BY <2>1, <2>3 DEF Answered
  <2>5. response' \in BOOLEAN /\ (response' => response \/ (worker = "await" /\ Answered(current)'))
    BY <2>2, <2>4, Zenon
  <2> QED  BY <2>1, <2>2, <2>5
<1> QED  BY <1>1, <1>6, <1>7 DEF Server

LEMMA ServerKeeps ==
  ASSUME Inv, WInv', Server
  PROVE  Own'
<1> USE DEF Inv
<1>1. /\ \A h \in Goals : Advances(h)
      /\ goalState' \in [Goals -> {"unknown", "rejected", "executing"} \cup Final]
      /\ requests' \subseteq requests /\ response' \in BOOLEAN
      /\ response' => response \/ (worker = "await" /\ Answered(current)')
      /\ UNCHANGED <<goalAction, active, feedback_sub, ui, cb, reported, result, overlapped,
                     issued, answers, main, worker, current, success>>
  BY ServerAdvances, Zenon DEF service, own
<1>2. TypeOK'
  <2>1. overlapped' \in BOOLEAN
    BY <1>1, Zenon DEF TypeOK
  <2>2. requests' \in SUBSET Calls
    BY <1>1 DEF TypeOK
  <2> QED  BY <1>1, <2>1, <2>2, WorkerTypesNext DEF TypeOK
<1>3. (UiSound /\ CallsSound /\ CallbackSound /\ ReportSound)'
  BY <1>1 DEF UiSound, CallsSound, CallbackSound, ReportSound, Over
<1>4. (NoGoalLost /\ EntriesSound /\ OneByOne)'
  BY <1>1 DEF NoGoalLost, Unreported, Alive, InUi, InCallback, Unanswered, EntriesSound,
     OneByOne, Pending
<1>5. "unknown" \notin Final /\ "executing" \notin Final /\ "rejected" \notin Final
  BY ActionAssumption DEF Final
<1>6. ServerSound'
  <2>1. \A h \in Goals : Reached(h)' => Reached(h)
    BY <1>1 DEF Reached, Advances
  <2>2. \A h \in Goals : SendOf(h) \in requests' => goalState'[h] = "unknown"
    BY <1>1 DEF ServerSound, Advances
  <2>3. current \in Calls /\ Answered(current) => Answered(current)'
    <3>1. current \in Calls => current.kind \in {"send", "result", "cancel"}
            /\ (current.kind # "cancel" => current.uuid \in Goals)
      BY CallShape
    <3> QED  BY <1>1, <1>5, <3>1 DEF Answered, Advances
  <2>4. worker \in {"await", "reply", "callback"} => current \in Calls
    BY WorkerFacts DEF CallbackSound
  <2>5. response' => worker' = "await" /\ Answered(current)'
    BY <1>1, <2>3, <2>4 DEF ServerSound
  <2>6. worker' \in {"reply", "callback"} /\ success' => Answered(current)'
    BY <1>1, <2>3, <2>4 DEF ServerSound
  <2> QED  BY <1>1, <2>1, <2>2, <2>5, <2>6 DEF ServerSound
<1>7. ResultsTruthful'
  BY <1>1, <1>5 DEF ResultsTruthful, Advances
<1> QED  BY <1>2, <1>3, <1>4, <1>6, <1>7 DEF Own

(***************************************************************************)
(* The invariant holds, and what follows from it.                          *)
(***************************************************************************)
LEMMA InitInv == Init => Inv
<1> SUFFICES ASSUME Init PROVE Inv
  OBVIOUS
<1>1. P!Init
  BY Zenon DEF Init, W!Init, P!Init
<1>2. WInv
  BY <1>1, WorkerAssumed, P!InitEstablishes, P!InitAccounted DEF WInv
<1>3. TypeOK
  BY <1>2, WorkerFacts DEF Init, TypeOK, Idle
<1>4. UiSound /\ CallsSound /\ CallbackSound /\ ReportSound
  BY DEF Init, W!Init, Idle, UiSound, UiSends, CallsSound, CallbackSound, Disposing, ReportSound
<1>5. NoGoalLost /\ EntriesSound /\ ResultsTruthful /\ OneByOne
  BY ActionAssumption DEF Init, NoGoalLost, Unreported, EntriesSound, ResultsTruthful, Final,
     OneByOne, Pending
<1>6. ServerSound
  BY DEF Init, W!Init, ServerSound, Reached
<1> QED  BY <1>2, <1>3, <1>4, <1>5, <1>6 DEF Inv

LEMMA NextKeepsInv == Inv /\ [Next]_vars => Inv'
<1> SUFFICES ASSUME Inv, [Next]_vars PROVE Inv'
  OBVIOUS
<1>1. WInv'
  BY WInvKept DEF Inv
<1>2. ASSUME Ui PROVE Own'
  BY <1>1, <1>2, RemembersKeeps, SubscribesKeeps, LooksUpKeeps, UiCallKeeps DEF Ui
<1>3. ASSUME Worker PROVE Own'
  BY <1>1, <1>3, WorksKeeps, ExecKeeps, ExecServerKeeps, RepliesKeeps, AsksKeeps, ForgetsKeeps,
     ReportsKeeps, EndsKeeps DEF Worker, Own
<1>4. ASSUME UNCHANGED vars PROVE Own'
  <2>1. /\ UNCHANGED <<goalAction, active, feedback_sub, ui, cb, reported, result, overlapped,
                     requests, response, goalState, issued, answers, main, worker, current, success>>
    BY <1>4 DEF vars, service, own, server
  <2>2. TypeOK'
    <3>1. overlapped' \in BOOLEAN /\ response' \in BOOLEAN
      BY <2>1, Zenon DEF Inv, TypeOK
    <3> QED  BY <1>1, <2>1, <3>1, WorkerTypesNext DEF Inv, TypeOK
  <2>3. (UiSound /\ CallsSound /\ CallbackSound /\ ReportSound)'
    BY <2>1 DEF Inv, UiSound, CallsSound, CallbackSound, ReportSound, Over
  <2>4. (NoGoalLost /\ EntriesSound /\ OneByOne)'
    BY <2>1 DEF Inv, NoGoalLost, Unreported, Alive, InUi, InCallback, Unanswered, EntriesSound,
       OneByOne, Pending
  <2>5. (ServerSound /\ ResultsTruthful)'
    BY <2>1 DEF Inv, ServerSound, ResultsTruthful, Reached, Answered
  <2> QED  BY <2>2, <2>3, <2>4, <2>5 DEF Own
<1>5. Own'
  BY <1>1, <1>2, <1>3, <1>4, MainKeeps, ServerKeeps DEF Next
<1> QED  BY <1>1, <1>5 DEF Inv, Own

\* The invariant of every state, and of every step.
LEMMA InvAlways == Spec => []Inv
  BY InitInv, NextKeepsInv, PTL DEF Spec

(* The data of the action client and of its worker stay of their types;    *)
(* in particular a result that is reported is a final status.              *)
THEOREM ActionTypeCorrect == Spec => []TypeOK
<1>1. Inv => TypeOK  BY DEF Inv
<1> QED  BY InvAlways, <1>1, PTL

(* No goal is reported twice (ros_manager.cpp:936-1011).                   *)
THEOREM GoalsReportedOnce == Spec => []ReportedOnce
<1>1. Inv => ReportedOnce  BY DEF Inv, ReportSound, ReportedOnce
<1> QED  BY InvAlways, <1>1, PTL

(* A final status shown is the goal's own.                                 *)
THEOREM ResultsAlwaysTruthful == Spec => []ResultsTruthful
<1>1. Inv => ResultsTruthful  BY DEF Inv
<1> QED  BY InvAlways, <1>1, PTL

(* When all is quiet nothing is left of the goals that were sent.          *)
THEOREM NothingEverLeftBehind == Spec => []NothingLeftBehind
<1>1. ASSUME Inv, worker \in {"loop", "asleep"}, tasks = << >>, ui = Idle,
             NEW g \in Goals
      PROVE  ~Alive(g)
  <2>1. cb = "none" /\ ~InUi(g)
    BY <1>1 DEF Inv, CallbackSound, InUi, UiSends, Idle
  <2>2. \A c \in issued : answers[c] # 0
    BY <1>1 DEF Inv, WInv, P!Accounted, P!Running
  <2> QED  BY <2>1, <2>2 DEF Alive, InCallback, Unanswered, Disposing
<1>2. ASSUME Inv, worker \in {"loop", "asleep"}, tasks = << >>, ui = Idle,
             NEW a \in Actions
      PROVE  active[a] = NoGoal /\ feedback_sub[a] = NoGoal
  <2>1. \A g \in Goals : ~Unreported(g)
    BY <1>1, <1>2 DEF Inv, NoGoalLost
  <2>2. a # NoAction /\ active[a] \in Goals \cup {NoGoal} /\ feedback_sub[a] \in Goals \cup {NoGoal}
    BY <1>2, ActionAssumption DEF Inv, TypeOK
  <2> QED  BY <1>2, <2>1, <2>2 DEF Inv, EntriesSound, Unreported
<1>3. Inv => NothingLeftBehind
  BY <1>2 DEF NothingLeftBehind
<1> QED  BY InvAlways, <1>3, PTL

(* The feedback subscription of a lone goal carries that goal's callback.  *)
THEOREM FeedbackAlwaysReachesGoal == Spec => []FeedbackReachesGoal
<1>1. ASSUME Inv, NEW g \in Goals, ~overlapped, Pending(g)
      PROVE  feedback_sub[goalAction[g]] \in {g, NoGoal}
  <2> DEFINE h == feedback_sub[goalAction[g]]
  <2>1. Unreported(g) /\ goalAction[g] \in Actions
    BY <1>1 DEF Pending, Unreported, Inv, TypeOK
  <2>2. h \in Goals \cup {NoGoal}
    BY <1>1, <2>1 DEF Inv, TypeOK
  <2>3. CASE h # NoGoal
    <3>1. Unreported(h) /\ goalAction[h] = goalAction[g]
      BY <1>1, <2>1, <2>3 DEF Inv, EntriesSound, Unreported
    <3> QED  BY <1>1, <2>1, <2>2, <2>3, <3>1 DEF Inv, OneByOne
  <2> QED  BY <2>3
<1>2. Inv => FeedbackReachesGoal
  BY <1>1 DEF FeedbackReachesGoal
<1> QED  BY InvAlways, <1>2, PTL

(* A cancel aims at a pending goal as long as no two goals overlapped.     *)
THEOREM LoneCancelsAim == Spec => CancelAimsWithoutOverlap
<1>1. ASSUME Inv, Next, ui.step = "idle", ui'.step = "cancel", ~overlapped
      PROVE  CancelAimed
  <2>1. PICK k \in Cancels, a \in Actions : CancelLooksUp(k, a)
    <3>1. ~(Worker \/ MainAndSpin \/ Server)
      BY <1>1 DEF Worker, MainAndSpin, Server, own, WorkerWorks, WorkerSends, WorkerGetsResponse,
         WorkerGivesUp, WorkerReplies, CallbackAsks, CallbackForgets, CallbackUnsubscribes,
         CallbackReports, CallbackEnds, ServerJudges, ServerCancels, ServerReturns,
         ServerFinishes, Respond
    <3> QED
      BY <1>1, <3>1 DEF Next, Ui, SendRemembers, SendSubscribes, SendEnqueues, CancelEnqueues, Idle
  <2>2. /\ ui'.on = a /\ ui'.uuid = (IF active[a] = NoGoal THEN AllGoals ELSE active[a])
        /\ UNCHANGED <<goalAction, active, cb, reported, current>>
    BY <2>1 DEF CancelLooksUp, service
  <2>3. ASSUME NEW g \in PendingOn(a) PROVE ui'.uuid = g
    <3>1. g \in Goals /\ Pending(g) /\ goalAction[g] = a
      BY <2>3 DEF PendingOn
    <3> QED  BY <1>1, <2>2, <3>1, ActionAssumption DEF Inv, OneByOne
  <2> QED  BY <2>2, <2>3 DEF CancelAimed, PendingOn, Pending, Unreported
<1>2. Inv /\ [Next]_vars =>
        [ui.step = "idle" /\ ui'.step = "cancel" /\ ~overlapped => CancelAimed]_vars
  BY <1>1
<1> QED  BY InvAlways, InitInv, NextKeepsInv, <1>2, PTL DEF Spec, CancelAimsWithoutOverlap

(***************************************************************************)
(* The client keeps what ActionGoals promises.                             *)
(***************************************************************************)
RequestsMade == requests \subseteq issued

LEMMA IssuedGrow ==
  ASSUME Inv, [Next]_vars
  PROVE  issued \subseteq issued'
<1> USE DEF P!ros, P!flags, P!exec, P!ends
<1>1. [P!Next]_P!vars
  BY StepIsPStep DEF Inv
<1>2. ASSUME NEW c \in Calls, P!UiCall(c) \/ P!FollowUp(c) PROVE issued \subseteq issued'
  BY <1>2 DEF P!UiCall, P!FollowUp, P!call_service_async
<1>3. ASSUME P!Worker \/ P!WorkerWakesSpuriously PROVE issued' = issued
  BY <1>3 DEF P!Worker, P!WorkerWakesSpuriously, P!WorkerSleeps, P!WorkerExits, P!WorkerTakes,
     P!ExecFailsEarly, P!ExecLooksForServer, P!ExecPolls, P!ExecSends, P!ExecGetsResponse,
     P!ExecGivesUp, P!ExecReplies, P!CallbackReturns
<1>4. ASSUME P!Start \/ P!StartFails \/ P!StopRequest \/ P!StopGoesOn \/ P!SpinExits \/ P!ContextGoesDown
      PROVE  issued' = issued
  BY <1>4 DEF P!Start, P!StartFails, P!StopRequest, P!StopGoesOn, P!StopCloses, P!StopNotifies,
     P!StopJoinsWorker, P!StopTearsDown, P!SpinExits, P!ContextGoesDown
<1> QED  BY <1>1, <1>2, <1>3, <1>4 DEF P!Next, P!vars

LEMMA RequestsStayMade ==
  ASSUME Inv, RequestsMade, [Next]_vars
  PROVE  RequestsMade'
<1>1. issued \subseteq issued'
  BY IssuedGrow
<1>2. CASE WorkerSends
  <2>1. worker = "avail" /\ requests' = requests \cup {current}
    BY <1>2 DEF WorkerSends, W!ExecSends
  <2>2. current \in issued
    BY <2>1, WorkerFacts DEF Inv
  <2> QED  BY <1>1, <2>1, <2>2 DEF RequestsMade
<1>3. CASE Server
  BY <1>1, <1>3, ServerAdvances DEF RequestsMade
<1>4. CASE ~WorkerSends /\ ~Server
  <2>1. requests' = requests
    BY <1>4 DEF Next, Ui, Worker, MainAndSpin, SendRemembers, SendSubscribes, SendEnqueues,
       CancelLooksUp, CancelEnqueues, WorkerWorks, WorkerGetsResponse, WorkerGivesUp,
       WorkerReplies, CallbackAsks, CallbackForgets, CallbackUnsubscribes, CallbackReports,
       CallbackEnds, server, vars
  <2> QED  BY <1>1, <2>1 DEF RequestsMade
<1> QED  BY <1>2, <1>3, <1>4

SentGoals == { g \in Goals : goalAction[g] # NoAction }

\* A step that touches no goal may be one that asks for a cancel.
LEMMA QuietStep ==
  ASSUME UNCHANGED <<goalAction, reported, result, goalState>>, issued \subseteq issued'
  PROVE  [Promise!Next]_Promise!vars
<1>1. SentGoals' = SentGoals
  BY DEF SentGoals
<1>2. CASE CancelsAsked' = CancelsAsked
  BY <1>1, <1>2 DEF Promise!vars, SentGoals
<1>3. CASE CancelsAsked' # CancelsAsked
  <2>1. CancelsAsked => CancelsAsked'
    BY DEF CancelsAsked
  <2>2. CancelsAsked' = TRUE
    BY <1>3, <2>1, Zenon DEF CancelsAsked
  <2>3. Promise!AskCancel
    BY <1>1, <2>2 DEF Promise!AskCancel, SentGoals
  <2> QED  BY <2>3 DEF Promise!Next
<1> QED  BY <1>2, <1>3

LEMMA RemembersRefines ==
  ASSUME Inv, NEW g \in Goals, NEW a \in Actions, SendRemembers(g, a)
  PROVE  Promise!Send(g)
<1>1. /\ goalAction[g] = NoAction
      /\ goalAction' = [goalAction EXCEPT ![g] = a]
      /\ UNCHANGED <<reported, result, goalState, issued>>
  BY DEF SendRemembers, IsNext, service, server
<1>2. goalAction \in [Goals -> Actions \cup {NoAction}] /\ a # NoAction
  BY ActionAssumption DEF Inv, TypeOK
<1>3. g \notin SentGoals /\ SentGoals' = SentGoals \cup {g}
  BY <1>1, <1>2 DEF SentGoals
<1>4. CancelsAsked' = CancelsAsked
  BY <1>1 DEF CancelsAsked
<1> QED  BY <1>1, <1>3, <1>4 DEF Promise!Send, SentGoals

LEMMA ReportsRefines ==
  ASSUME Inv, CallbackReports
  PROVE  Promise!Next
<1> USE DEF Inv
<1> DEFINE g == current.of
<1>1. /\ cb = "report"
      /\ reported' = [reported EXCEPT ![g] = @ + 1]
      /\ UNCHANGED <<goalAction, goalState, issued>>
  BY DEF CallbackReports, service, server
<1>2. PICK v \in Verdicts : result' = [result EXCEPT ![g] = v]
  BY DEF CallbackReports
<1>3. /\ worker = "callback" /\ current \in issued /\ current \in Calls
      /\ g \in Goals /\ reported[g] = 0
      /\ current.kind \in {"send", "result"}
  BY <1>1, DisposingFacts DEF Disposing, CallbackSound
<1>4. current.uuid = g /\ goalAction[g] # NoAction
  BY <1>3, CallShape DEF CallsSound
<1>5. v \in Promise!Verdicts /\ Promise!MayBeSaid(v, g)
  <2>1. CASE ~success
    BY <2>1 DEF Verdicts, Promise!Verdicts, Promise!MayBeSaid
  <2>2. CASE success /\ current.kind = "send"
    BY <1>4, <2>2 DEF Verdicts, Promise!Verdicts, Promise!MayBeSaid
  <2>3. CASE success /\ current.kind = "result"
    <3>1. goalState[g] \in Final
      BY <1>3, <1>4, <2>3 DEF ServerSound, Answered
    <3>2. v \in {goalState[g], "unreadable"}
      BY <1>4, <2>3 DEF Verdicts
    <3> QED  BY <3>1, <3>2 DEF Promise!Verdicts, Promise!MayBeSaid, Final
  <2> QED  BY <1>3, <2>1, <2>2, <2>3
<1>6. reported' = [reported EXCEPT ![g] = 1]
  BY <1>1, <1>3
<1>7. CancelsAsked' = CancelsAsked
  BY <1>1 DEF CancelsAsked
<1>8. Promise!Tell(g, v)
  <2> HIDE DEF g
  <2> QED  BY <1>1, <1>2, <1>3, <1>4, <1>5, <1>6, <1>7 DEF Promise!Tell
<1> QED  BY <1>3, <1>5, <1>8 DEF Promise!Next

LEMMA ServerRefines ==
  ASSUME Inv, RequestsMade, Server
  PROVE  [Promise!Next]_Promise!vars
<1> USE DEF Inv
<1>1. UNCHANGED <<goalAction, reported, result, issued>>
  BY ServerAdvances DEF service, own
<1>2. CancelsAsked' = CancelsAsked
  BY <1>1 DEF CancelsAsked
<1>3. goalState \in [Goals -> {"unknown", "rejected", "executing"} \cup Final]
      /\ requests \subseteq Calls
  BY Zenon DEF TypeOK
<1>4. ASSUME NEW c \in requests, ServerJudges(c) PROVE Promise!Next
  <2>1. c.uuid \in Goals /\ c = SendOf(c.uuid) /\ c.kind = "send" /\ c.of = c.uuid
    BY <1>3, <1>4, CallShape DEF ServerJudges
  <2>2. goalState[c.uuid] = "unknown" /\ goalAction[c.uuid] # NoAction
    BY <1>4, <2>1 DEF ServerSound, CallsSound, RequestsMade
  <2>3. Promise!Judge(c.uuid)
    BY <1>1, <1>2, <1>4, <2>1, <2>2 DEF Promise!Judge, ServerJudges
  <2> QED  BY <2>1, <2>3 DEF Promise!Next
<1>5. ASSUME NEW c \in requests, ServerCancels(c) PROVE Promise!Next
  <2>1. PICK gs \in SUBSET CancelledBy(c) :
               goalState' = [h \in Goals |-> IF h \in gs THEN "canceled" ELSE goalState[h]]
    BY <1>5 DEF ServerCancels
  <2>2. gs \in SUBSET Goals /\ \A h \in gs : goalState[h] = "executing"
    BY <2>1 DEF CancelledBy
  <2>3. CancelsAsked
    BY <1>5 DEF ServerCancels, CancelsAsked, RequestsMade
  <2>4. Promise!Cancel(gs)
    BY <1>1, <1>2, <2>1, <2>2, <2>3 DEF Promise!Cancel
  <2> QED  BY <2>2, <2>4 DEF Promise!Next
<1>6. ASSUME NEW c \in requests, ServerReturns(c) PROVE UNCHANGED Promise!vars
  BY <1>1, <1>2, <1>6 DEF ServerReturns, Promise!vars
<1>7. ASSUME NEW g \in Goals, ServerFinishes(g) PROVE Promise!Next
  <2>1. Promise!Finish(g)
    BY <1>1, <1>2, <1>7 DEF ServerFinishes, Promise!Finish
  <2> QED  BY <2>1 DEF Promise!Next
<1> QED  BY <1>4, <1>5, <1>6, <1>7 DEF Server

LEMMA StepRefines ==
  ASSUME Inv, RequestsMade, [Next]_vars
  PROVE  [Promise!Next]_Promise!vars
<1>1. issued \subseteq issued'
  BY IssuedGrow
<1>2. ASSUME NEW g \in Goals, NEW a \in Actions, SendRemembers(g, a) PROVE Promise!Next
  BY <1>2, RemembersRefines DEF Promise!Next
<1>3. CASE UNCHANGED <<goalAction, reported, result, goalState>>
  BY <1>1, <1>3, QuietStep
<1>4. ASSUME Ui PROVE \/ \E g \in Goals, a \in Actions : SendRemembers(g, a)
                      \/ UNCHANGED <<goalAction, reported, result, goalState>>
  BY <1>4 DEF Ui, SendSubscribes, SendEnqueues, CancelLooksUp, CancelEnqueues, server
<1>5. ASSUME Worker PROVE CallbackReports \/ UNCHANGED <<goalAction, reported, result, goalState>>
  BY <1>5 DEF Worker, WorkerWorks, WorkerSends, WorkerGetsResponse, WorkerGivesUp,
     WorkerReplies, CallbackAsks, CallbackForgets, CallbackUnsubscribes, CallbackEnds, own, server
<1>6. ASSUME MainAndSpin \/ UNCHANGED vars
      PROVE  UNCHANGED <<goalAction, reported, result, goalState>>
  BY <1>6 DEF MainAndSpin, own, server, vars
<1> QED
  BY <1>2, <1>3, <1>4, <1>5, <1>6, ReportsRefines, ServerRefines DEF Next

(* The client reports each goal once and truthfully, and cancels nothing   *)
(* on its own: it implements ActionGoals.                                  *)
THEOREM ClientKeepsPromise == Spec => ImplementsActionGoals
<1>1. Init => Promise!Init /\ RequestsMade
  <2> SUFFICES ASSUME Init PROVE Promise!Init /\ RequestsMade
    OBVIOUS
  <2>1. { g \in Goals : goalAction[g] # NoAction } = {}
    BY DEF Init
  <2>2. CancelsAsked = FALSE
    BY DEF Init, W!Init, CancelsAsked
  <2> QED  BY <2>1, <2>2 DEF Init, Promise!Init, RequestsMade
<1>2. Inv /\ RequestsMade /\ [Next]_vars => RequestsMade' /\ [Promise!Next]_Promise!vars
  BY RequestsStayMade, StepRefines
<1> QED
  BY InitInv, NextKeepsInv, <1>1, <1>2, PTL DEF Spec, ImplementsActionGoals, Promise!Spec
=============================================================================
