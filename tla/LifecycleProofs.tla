-------------------------- MODULE LifecycleProofs --------------------------
(***************************************************************************)
(* The locks of Lifecycle exclude, and are never waited for in a circle;   *)
(* what a thread uses is there; the timer is never asleep when it is       *)
(* joined.                                                                 *)
(***************************************************************************)
EXTENDS Lifecycle, TLAPS

\* No two threads hold a lock.
MutualExclusion ==
  \A l \in Locks : \A t, u \in Threads :
    pc[t] \in Section[l] /\ pc[u] \in Section[l] => t = u

(***************************************************************************)
(* Where main is, and what that says of the objects and the threads.       *)
(***************************************************************************)
Off(t) == pc[t] \in {"none", "exited"}
Quiet(t) == pc[t] \in {"none", "exited", "spinning", "idle"}

InTimer == {"stop_timer", "lowering", "notify", "join_refresh"}
InStop == {"stop", "close", "join_worker", "join_spin"}
InDestructor == {"unsubscribe_all", "unsubscribing_all"}
BeforeApp == {"start", "check"}
InRun == Places.main \ (BeforeApp \cup InTimer \cup InStop \cup InDestructor
                        \cup {"construct", "done"})

\* run() is the life of the screen, but for the timer places, which the
\* destructor visits too.
ScreenSound ==
  /\ pc["main"] \in InRun => screen = "alive"
  /\ screen = "alive" => pc["main"] \in InRun \cup InTimer /\ app = "alive"

\* The refresh thread lives within run(), up to the join.
RefreshSound ==
  /\ ~Off("refresh") =>
       /\ screen = "alive"
       /\ pc["main"] \in InRun \cup InTimer
       /\ pc["main"] \notin {"start_timer", "clear", "leave"}
  /\ "refresh" \in sees => pc["refresh"] = "repainting"

\* Before the application there is nothing to do; after it, nobody to do it.
AppSound ==
  /\ pc["main"] \in BeforeApp => app = "none"
  /\ pc["main"] \in {"construct"} \cup InRun \cup InTimer \cup InDestructor => app = "alive"
  /\ pc["main"] = "done" => app # "alive"
  /\ app = "none" =>
       /\ Quiet("worker") /\ Quiet("spin") /\ tasks = << >> /\ subscribed = {}
       /\ screen = "none"
  /\ app = "gone" => Off("worker") /\ Off("spin")
  /\ pc["main"] \in InDestructor \/ (pc["main"] \in InTimer /\ screen # "alive") =>
       Off("worker") /\ Off("spin")
  /\ pc["main"] = "join_spin" => Off("worker")

\* From the moment the flag is down the refresh thread does not fall asleep.
TimerSound ==
  /\ pc["main"] \in {"lowering", "notify", "join_refresh"} =>
       ~running /\ pc["refresh"] # "dozing"
  /\ pc["main"] = "join_refresh" => pc["refresh"] # "asleep"

IInv ==
  TypeOK /\ MutualExclusion /\ ScreenSound /\ RefreshSound /\ AppSound /\ TimerSound

-----------------------------------------------------------------------------
(***************************************************************************)
(* Locks.                                                                  *)
(***************************************************************************)

\* A thread enters a section from a place at which it waits for the lock.
Guarded(from, to) ==
  \A l \in Locks : to \in Section[l] => from \in Section[l] \/ from \in Waiting[l]

LEMMA PathsGuarded ==
  \A t \in Threads : \A e \in Path[t] : Guarded(e[1], e[2])
<1>1. \A e \in MainPath : Guarded(e[1], e[2])
  BY DEF Guarded, MainPath, Section, Waiting, Locks, UnderTimer, InRefusal
<1>2. \A e \in RefreshPath : Guarded(e[1], e[2])
  BY DEF Guarded, RefreshPath, Section, Waiting, Locks, UnderTimer, InRefusal
<1>3. \A e \in SpinPath : Guarded(e[1], e[2])
  BY DEF Guarded, SpinPath, Section, Waiting, Locks, UnderTimer, InRefusal
<1>4. \A e \in WorkerPath : Guarded(e[1], e[2])
  BY DEF Guarded, WorkerPath, Section, Waiting, Locks, UnderTimer, InRefusal
<1> QED BY <1>1, <1>2, <1>3, <1>4 DEF Threads, Path

LEMMA GoExcludes ==
  ASSUME DOMAIN pc = Threads, MutualExclusion,
         NEW t \in Threads, NEW from, NEW to, Go(t, from, to), Guarded(from, to)
  PROVE  MutualExclusion'
BY DEF MutualExclusion, Go, CanGo, Guarded, Free

LEMMA ExclusionKept ==
  ASSUME TypeOK, MutualExclusion, [Next]_vars
  PROVE  MutualExclusion'
<1> USE DEF TypeOK
<1>0. DOMAIN pc = Threads
  OBVIOUS
<1>1. ASSUME NEW t \in Threads, NEW from, NEW to, Go(t, from, to), Guarded(from, to)
      PROVE  MutualExclusion'
  BY <1>0, <1>1, GoExcludes
<1>2. ASSUME NEW t \in Threads, Follow(t) PROVE MutualExclusion'
  BY <1>1, <1>2, PathsGuarded DEF Follow
<1>3. CASE Main
  <2> USE DEF Threads, Guarded, Section, Waiting, Locks, UnderTimer, InRefusal
  <2>1. CASE Start
    BY <1>0, <2>1 DEF Start, MutualExclusion
  <2>2. CASE start_refresh_timer
    BY <1>0, <1>1, <2>2 DEF start_refresh_timer, CanGo, MutualExclusion
  <2>3. CASE NotifyTimer
    BY <1>0, <2>3 DEF NotifyTimer, CanGo, MutualExclusion
  <2>4. CASE ChecksSignal \/ CreateScreen \/ ToggleSubscribes \/ SendSubscribes
    BY <1>1, <2>4 DEF ChecksSignal, CreateScreen, ToggleSubscribes, SendSubscribes
  <2>5. CASE Enqueue("enqueue_plain", "plain") \/ Enqueue("enqueue_send", "send")
    BY <1>1, <2>5 DEF Enqueue
  <2>6. CASE LowerFlag \/ JoinRefresh \/ ClearScreen \/ LeaveRun
    BY <1>1, <2>6 DEF LowerFlag, JoinRefresh, ClearScreen, LeaveRun
  <2>7. CASE RequestStop \/ CloseQueue \/ JoinWorker \/ JoinSpin
    BY <1>1, <2>7 DEF RequestStop, CloseQueue, JoinWorker, JoinSpin
  <2>8. CASE UnsubscribeAll \/ AppDies
    BY <1>1, <2>8 DEF UnsubscribeAll, AppDies
  <2>9. CASE Follow("main")
    BY <1>2, <2>9
  <2> QED BY <1>3, <2>1, <2>2, <2>3, <2>4, <2>5, <2>6, <2>7, <2>8, <2>9 DEF Main
<1>4. CASE UserCommands \/ UserQuits
  BY <1>1, <1>4
  DEF UserCommands, UserQuits, Commands, Threads, Guarded, Section, Waiting, Locks,
      UnderTimer, InRefusal
<1>5. CASE Refresh
  <2> USE DEF Threads, Guarded, Section, Waiting, Locks, UnderTimer, InRefusal
  <2>1. CASE RefreshTests \/ RefreshAwakes \/ RefreshLooks \/ RefreshPosts
    BY <1>1, <2>1 DEF RefreshTests, RefreshAwakes, RefreshLooks, RefreshPosts
  <2> QED BY <1>2, <1>5, <2>1 DEF Refresh
<1>6. CASE Spin \/ SpinExits \/ MessageComes \/ ContextGoesDown
  <2> USE DEF Threads, Guarded, Section, Waiting, Locks, UnderTimer, InRefusal
  <2>1. CASE SpinLooks \/ SpinPosts \/ SpinExits \/ MessageComes \/ ContextGoesDown
    BY <1>1, <2>1 DEF SpinLooks, SpinPosts, SpinExits, MessageComes, ContextGoesDown
  <2> QED BY <1>2, <1>6, <2>1 DEF Spin
<1>7. CASE Worker
  <2> USE DEF Threads, Guarded, Section, Waiting, Locks, UnderTimer, InRefusal
  <2>1. CASE WorkerTakes \/ WorkerExits \/ Answers \/ Ask
    BY <1>1, <2>1 DEF WorkerTakes, WorkerExits, Answers, Ask
  <2>2. CASE AskEnqueues \/ AskRefused \/ CallbackReturns
    BY <1>1, <2>2 DEF AskEnqueues, AskRefused, CallbackReturns
  <2>3. CASE \/ Unsubscribe("unsubscribe", "unsubscribing")
             \/ Unsubscribe("refused_forgot", "refused_unsubscribing")
    BY <1>1, <2>3 DEF Unsubscribe
  <2> QED BY <1>2, <1>7, <2>1, <2>2, <2>3 DEF Worker
<1>8. CASE UNCHANGED vars
  BY <1>8 DEF vars, MutualExclusion
<1> QED BY <1>3, <1>4, <1>5, <1>6, <1>7, <1>8 DEF Next

(***************************************************************************)
(* A lock that is waited for while another one is held is above it.        *)
(***************************************************************************)
Level == [queue |-> 1, timer |-> 1, data |-> 2, goals |-> 3, subs |-> 3]

LEMMA LocksClimb ==
  ASSUME NEW l \in Locks, NEW m \in Locks, NEW p,
         p \in Section[l], p \in Waiting[m]
  PROVE  Level[l] < Level[m]
BY DEF Locks, Section, Waiting, UnderTimer, InRefusal, Level

\* A thread waits for one lock at most.
LEMMA OneWanted ==
  ASSUME NEW l \in Locks, NEW m \in Locks, NEW p,
         p \in Waiting[l], p \in Waiting[m]
  PROVE  l = m
BY DEF Locks, Waiting

\* Who joins another thread holds no lock and waits for none.
LEMMA JoinersHoldNothing ==
  ASSUME NEW l \in Locks, NEW p \in {"join_refresh", "join_worker", "join_spin"}
  PROVE  p \notin Section[l] /\ p \notin Waiting[l]
BY DEF Locks, Section, Waiting, UnderTimer, InRefusal

(* No circle: among threads that all wait for one another, the one that    *)
(* wants the highest lock waits for a thread that wants a higher one.      *)
Joins(t) == pc[t] \in {"join_refresh", "join_worker", "join_spin"}
Wants(t, n) == \E l \in Locks : pc[t] \in Waiting[l] /\ Level[l] = n

LEMMA AwaitsClimbs ==
  ASSUME NEW t \in Threads, NEW u \in Threads, Awaits(t, u)
  PROVE  \/ t = "main" /\ u # "main" /\ Joins(t)
         \/ /\ \E n \in 1..3 : Wants(t, n)
            /\ ~Joins(u)
            /\ \A n, k \in 1..3 : Wants(t, n) /\ Wants(u, k) => n < k
<1>1. CASE Joining(t, u)
  BY <1>1 DEF Joining, Joins
<1>2. ASSUME NEW l \in Locks, pc[t] \in Waiting[l], pc[u] \in Section[l]
      PROVE  /\ \E n \in 1..3 : Wants(t, n)
             /\ ~Joins(u)
             /\ \A n, k \in 1..3 : Wants(t, n) /\ Wants(u, k) => n < k
  <2>1. Level[l] \in 1..3
    BY DEF Level, Locks
  <2>2. \E n \in 1..3 : Wants(t, n)
    BY <1>2, <2>1 DEF Wants
  <2>3. ~Joins(u)
    BY <1>2, JoinersHoldNothing DEF Joins
  <2>4. ASSUME NEW n \in 1..3, NEW k \in 1..3, Wants(t, n), Wants(u, k)
        PROVE  n < k
    <3>1. n = Level[l]
      BY <1>2, <2>4, OneWanted DEF Wants
    <3>2. PICK m \in Locks : pc[u] \in Waiting[m] /\ Level[m] = k
      BY <2>4 DEF Wants
    <3> QED BY <1>2, <3>1, <3>2, LocksClimb
  <2> QED BY <2>2, <2>3, <2>4
<1> QED BY <1>1, <1>2 DEF Awaits

LEMMA WaitsNeverClose == NoCircularWait
<1> SUFFICES ASSUME NEW group \in (SUBSET Threads) \ {{}},
                    \A t \in group : \E u \in group : Awaits(t, u)
             PROVE  FALSE
  BY DEF NoCircularWait
<1> DEFINE Wanting(t) == \E n \in 1..3 : Wants(t, n)
<1>1. \A t \in group : t = "main" \/ Wanting(t)
  BY AwaitsClimbs
<1>2. ASSUME NEW t \in group, NEW n \in 1..3, Wants(t, n)
      PROVE  \E u \in group : \E k \in 1..3 : k > n /\ Wants(u, k)
  <2>1. PICK u \in group : Awaits(t, u)
    OBVIOUS
  <2>2. /\ ~Joins(u)
        /\ \A k \in 1..3 : Wants(u, k) => n < k
    BY <1>2, <2>1, AwaitsClimbs
  <2>3. PICK v \in group : Awaits(u, v)
    OBVIOUS
  <2>4. \E k \in 1..3 : Wants(u, k)
    BY <2>2, <2>3, AwaitsClimbs
  <2> QED BY <2>2, <2>4
<1>3. \A t \in group : ~Wants(t, 3)
  BY <1>2
<1>4. \A t \in group : ~Wants(t, 2)
  BY <1>2, <1>3
<1>5. \A t \in group : ~Wants(t, 1)
  BY <1>2, <1>3, <1>4
<1>6. \A t \in group : ~Wanting(t)
  <2>1. \A n \in 1..3 : n = 1 \/ n = 2 \/ n = 3
    OBVIOUS
  <2> QED BY <2>1, <1>3, <1>4, <1>5
<1>7. PICK t \in group : \E u \in group : Awaits(t, u)
  OBVIOUS
<1> QED BY <1>1, <1>6, <1>7, AwaitsClimbs

-----------------------------------------------------------------------------
(***************************************************************************)
(* The phases of the program.                                              *)
(***************************************************************************)
LEMMA InitSound == Init => IInv
<1> SUFFICES ASSUME Init PROVE IInv
  OBVIOUS
<1> USE DEF Init
<1>1. TypeOK
  <2>1. DOMAIN pc = Threads /\ \A t \in Threads : pc[t] \in Places[t]
    BY DEF Threads, Places
  <2>2. pc["worker"] \notin Busy
    BY DEF Busy
  <2>3. IF pc["worker"] \in Busy THEN job \in Kinds ELSE job = "none"
    BY <2>2
  <2>4. app \in {"none", "alive", "gone"} /\ screen \in {"none", "alive", "gone"}
    OBVIOUS
  <2>5. screen_ \in BOOLEAN /\ running \in BOOLEAN
    BY Zenon
  <2>6. stop_requested \in BOOLEAN /\ shutdown \in BOOLEAN
    BY Zenon
  <2>7. tasks \in Seq(Kinds)
    OBVIOUS
  <2>8. sees \in SUBSET {"refresh", "spin"} /\ subscribed \in SUBSET {"echo", "feedback"}
    OBVIOUS
  <2> QED BY <2>1, <2>3, <2>4, <2>5, <2>6, <2>7, <2>8, Zenon DEF TypeOK
<1>2. MutualExclusion
  BY DEF MutualExclusion, Threads, Locks, Section, UnderTimer, InRefusal
<1>3. ScreenSound /\ RefreshSound /\ AppSound /\ TimerSound
  BY DEF ScreenSound, RefreshSound, AppSound, TimerSound, InRun, Places, Ends, MainPath,
     BeforeApp, InTimer, InStop, InDestructor, Off, Quiet
<1> QED BY <1>1, <1>2, <1>3 DEF IInv

\* Moving a thread to another of its places keeps the types of the rest.
LEMMA GoKeepsPlaces ==
  ASSUME DOMAIN pc = Threads, \A t \in Threads : pc[t] \in Places[t],
         NEW t \in Threads, NEW from, NEW to, Go(t, from, to), to \in Places[t]
  PROVE  /\ DOMAIN pc' = Threads
         /\ \A u \in Threads : pc'[u] \in Places'[u]
         /\ pc'[t] = to
         /\ \A u \in Threads \ {t} : pc'[u] = pc[u]
BY DEF Go, CanGo

LEMMA PlacesOfThreads ==
  /\ \A t \in Threads : \A e \in Path[t] : e[1] \in Places[t] /\ e[2] \in Places[t]
  /\ \A e \in WorkerPath : e[1] \in Busy /\ e[2] \in Busy
<1>1. \A e \in MainPath : e[1] \in Places.main /\ e[2] \in Places.main
  BY DEF Places, Ends
<1>2. \A e \in RefreshPath : e[1] \in Places.refresh /\ e[2] \in Places.refresh
  BY DEF Places, Ends
<1>3. \A e \in SpinPath : e[1] \in Places.spin /\ e[2] \in Places.spin
  BY DEF Places, Ends
<1>4. \A e \in WorkerPath : e[1] \in Places.worker /\ e[2] \in Places.worker
  BY DEF Places, Ends
<1>5. \A e \in WorkerPath : e[1] \notin {"idle", "exited"} /\ e[2] \notin {"idle", "exited"}
  BY DEF WorkerPath
<1> QED BY <1>1, <1>2, <1>3, <1>4, <1>5 DEF Threads, Path, Busy


LEMMA PlacesKept ==
  ASSUME DOMAIN pc = Threads, \A t \in Threads : pc[t] \in Places[t], [Next]_vars
  PROVE  DOMAIN pc' = Threads /\ \A t \in Threads : pc'[t] \in Places[t]
<1> DEFINE Kept == DOMAIN pc' = Threads /\ \A t \in Threads : pc'[t] \in Places[t]
<1> SUFFICES Kept
  OBVIOUS
<1>1. ASSUME NEW t \in Threads, NEW from, NEW to, Go(t, from, to), to \in Places[t]
      PROVE  Kept
  BY <1>1 DEF Go
<1> HIDE DEF Kept
<1>2. ASSUME NEW t \in Threads, Follow(t) PROVE Kept
  BY <1>1, <1>2, PlacesOfThreads DEF Follow
<1>3. CASE Main
  <2> USE DEF Threads, Places, Ends, MainPath
  <2>1. CASE Start
    BY <2>1 DEF Start, SpinPath, Kept
  <2>2. CASE start_refresh_timer
    BY <1>1, <2>2 DEF start_refresh_timer, RefreshPath, Kept
  <2>3. CASE NotifyTimer
    BY <2>3 DEF NotifyTimer, RefreshPath, Kept
  <2>4. CASE ChecksSignal \/ CreateScreen \/ ToggleSubscribes \/ SendSubscribes
    BY <1>1, <2>4 DEF ChecksSignal, CreateScreen, ToggleSubscribes, SendSubscribes
  <2>5. CASE Enqueue("enqueue_plain", "plain") \/ Enqueue("enqueue_send", "send")
    BY <1>1, <2>5 DEF Enqueue
  <2>6. CASE LowerFlag \/ JoinRefresh \/ ClearScreen \/ LeaveRun
    BY <1>1, <2>6 DEF LowerFlag, JoinRefresh, ClearScreen, LeaveRun
  <2>7. CASE RequestStop \/ CloseQueue \/ JoinWorker \/ JoinSpin
    BY <1>1, <2>7 DEF RequestStop, CloseQueue, JoinWorker, JoinSpin
  <2>8. CASE UnsubscribeAll \/ AppDies
    BY <1>1, <2>8 DEF UnsubscribeAll, AppDies
  <2>9. CASE Follow("main")
    BY <1>2, <2>9
  <2> QED BY <1>3, <2>1, <2>2, <2>3, <2>4, <2>5, <2>6, <2>7, <2>8, <2>9 DEF Main
<1>4. CASE UserCommands \/ UserQuits
  BY <1>1, <1>4
  DEF UserCommands, UserQuits, Commands, Threads, Places, Ends, MainPath
<1>5. CASE Refresh
  <2> USE DEF Threads, Places, Ends, RefreshPath
  <2>1. CASE RefreshTests \/ RefreshAwakes \/ RefreshLooks \/ RefreshPosts
    BY <1>1, <2>1 DEF RefreshTests, RefreshAwakes, RefreshLooks, RefreshPosts
  <2> QED BY <1>2, <1>5, <2>1 DEF Refresh
<1>6. CASE Spin \/ SpinExits \/ MessageComes \/ ContextGoesDown
  <2> USE DEF Threads, Places, Ends, SpinPath
  <2>1. CASE SpinLooks \/ SpinPosts \/ SpinExits \/ MessageComes \/ ContextGoesDown
    BY <1>1, <2>1 DEF SpinLooks, SpinPosts, SpinExits, MessageComes, ContextGoesDown
  <2> QED BY <1>2, <1>6, <2>1 DEF Spin
<1>7. CASE Worker
  <2> USE DEF Threads, Places, Ends, WorkerPath
  <2>1. CASE WorkerTakes \/ WorkerExits \/ Answers \/ Ask
    BY <1>1, <2>1 DEF WorkerTakes, WorkerExits, Answers, Ask
  <2>2. CASE AskEnqueues \/ AskRefused \/ CallbackReturns
    BY <1>1, <2>2 DEF AskEnqueues, AskRefused, CallbackReturns
  <2>3. CASE \/ Unsubscribe("unsubscribe", "unsubscribing")
             \/ Unsubscribe("refused_forgot", "refused_unsubscribing")
    BY <1>1, <2>3 DEF Unsubscribe
  <2> QED BY <1>2, <1>7, <2>1, <2>2, <2>3 DEF Worker
<1>8. CASE UNCHANGED vars
  BY <1>8 DEF vars, Kept
<1> QED BY <1>3, <1>4, <1>5, <1>6, <1>7, <1>8 DEF Next


LEMMA TypeKept ==
  ASSUME TypeOK, [Next]_vars
  PROVE  TypeOK'
<1> USE DEF TypeOK
<1>1. DOMAIN pc' = Threads /\ \A t \in Threads : pc'[t] \in Places[t]
  BY PlacesKept
<1>2. CASE Main \/ UserCommands \/ UserQuits
  <2> USE <1>2
      DEF Main, UserCommands, UserQuits, Start, ChecksSignal, CreateScreen,
          start_refresh_timer, Follow, ToggleSubscribes, SendSubscribes, Enqueue,
          LowerFlag, NotifyTimer, JoinRefresh, ClearScreen, LeaveRun, RequestStop,
          CloseQueue, JoinWorker, JoinSpin, UnsubscribeAll, AppDies,
          objects, flags, calls
  <2>1. tasks' \in Seq(Kinds)
    BY DEF Kinds
  <2>2. /\ app' \in {"none", "alive", "gone"}
        /\ screen' \in {"none", "alive", "gone"}
    OBVIOUS
  <2>3. screen_' \in BOOLEAN /\ running' \in BOOLEAN
    BY Zenon
  <2>4. stop_requested' \in BOOLEAN /\ shutdown' \in BOOLEAN
    BY Zenon
  <2>5. sees' = sees /\ subscribed' \in SUBSET {"echo", "feedback"}
    OBVIOUS
  <2>6. job' = job /\ pc'["worker"] = pc["worker"]
    BY DEF Go, CanGo, Threads
  <2> HIDE <1>2
      DEF Main, UserCommands, UserQuits, Start, ChecksSignal, CreateScreen,
          start_refresh_timer, Follow, ToggleSubscribes, SendSubscribes, Enqueue,
          LowerFlag, NotifyTimer, JoinRefresh, ClearScreen, LeaveRun, RequestStop,
          CloseQueue, JoinWorker, JoinSpin, UnsubscribeAll, AppDies,
          objects, flags, calls
  <2>7. IF pc'["worker"] \in Busy THEN job' \in Kinds ELSE job' = "none"
    BY <2>6
  <2> QED BY <1>1, <2>1, <2>2, <2>3, <2>4, <2>5, <2>7
<1>3. CASE Refresh \/ Spin \/ SpinExits \/ MessageComes \/ ContextGoesDown
  <2> USE <1>3
      DEF Refresh, Follow, RefreshTests, RefreshAwakes, RefreshLooks, RefreshPosts,
          Spin, SpinLooks, SpinPosts, SpinExits, MessageComes, ContextGoesDown,
          objects, flags, calls
  <2>1. UNCHANGED <<objects, flags, calls, subscribed>>
    OBVIOUS
  <2>2. sees' \in SUBSET {"refresh", "spin"}
    OBVIOUS
  <2>3. pc'["worker"] = pc["worker"]
    BY DEF Go, CanGo, Threads
  <2> HIDE <1>3
      DEF Refresh, Follow, RefreshTests, RefreshAwakes, RefreshLooks, RefreshPosts,
          Spin, SpinLooks, SpinPosts, SpinExits, MessageComes, ContextGoesDown
  <2>4. IF pc'["worker"] \in Busy THEN job' \in Kinds ELSE job' = "none"
    BY <2>1, <2>3
  <2> QED BY <1>1, <2>1, <2>2, <2>4, Zenon
<1>4. CASE Worker
  <2> USE <1>4
      DEF Worker, Follow, WorkerTakes, WorkerExits, Answers, Ask, AskEnqueues, AskRefused,
          Unsubscribe, CallbackReturns, objects, flags, calls
  <2>1. UNCHANGED <<objects, flags, sees>>
    OBVIOUS
  <2>2. tasks' \in Seq(Kinds)
    BY DEF Kinds
  <2>3. subscribed' \in SUBSET {"echo", "feedback"}
    OBVIOUS
  <2> HIDE <1>4
      DEF Worker, Follow, WorkerTakes, WorkerExits, Answers, Ask, AskEnqueues, AskRefused,
          Unsubscribe, CallbackReturns
  <2>4. IF pc'["worker"] \in Busy THEN job' \in Kinds ELSE job' = "none"
    <3> USE DEF Go, CanGo, Threads, Busy, Places, Ends, WorkerPath
    <3>1. CASE Follow("worker")
      BY <3>1, PlacesOfThreads DEF Follow, Path
    <3>2. CASE WorkerTakes
      BY <3>2 DEF WorkerTakes, Kinds
    <3>3. CASE WorkerExits \/ Answers \/ Ask \/ AskRefused
      BY <3>3 DEF WorkerExits, Answers, Ask, AskRefused
    <3>4. CASE AskEnqueues \/ CallbackReturns
      BY <3>4 DEF AskEnqueues, CallbackReturns
    <3>5. CASE \/ Unsubscribe("unsubscribe", "unsubscribing")
               \/ Unsubscribe("refused_forgot", "refused_unsubscribing")
      BY <3>5 DEF Unsubscribe
    <3> QED BY <1>4, <3>1, <3>2, <3>3, <3>4, <3>5 DEF Worker
  <2> QED BY <1>1, <2>1, <2>2, <2>3, <2>4, Zenon
<1>5. CASE UNCHANGED vars
  BY <1>5, Zenon DEF vars, Busy, Places
<1> QED BY <1>2, <1>3, <1>4, <1>5 DEF Next


LEMMA PhasesKept ==
  ASSUME TypeOK, ScreenSound, RefreshSound, AppSound, TimerSound, [Next]_vars
  PROVE  (ScreenSound /\ RefreshSound /\ AppSound /\ TimerSound)'
<1> DEFINE Sound == ScreenSound /\ RefreshSound /\ AppSound /\ TimerSound
<1> SUFFICES Sound'
  OBVIOUS
<1> USE DEF TypeOK, ScreenSound, RefreshSound, AppSound, TimerSound, InRun, InTimer,
        InStop, InDestructor, BeforeApp, Off, Quiet, Threads, Go, CanGo,
        objects, flags, calls
<1>1. CASE Main
  <2> USE DEF Places, Ends, MainPath
  <2>1. CASE Start
    BY <2>1 DEF Start
  <2>2. CASE ChecksSignal
    BY <2>2 DEF ChecksSignal
  <2>3. CASE CreateScreen
    BY <2>3 DEF CreateScreen
  <2>4. CASE start_refresh_timer
    BY <2>4 DEF start_refresh_timer
  <2>5. CASE Follow("main")
    BY <2>5 DEF Follow, Path
  <2>6. CASE ToggleSubscribes \/ SendSubscribes
    BY <2>6 DEF ToggleSubscribes, SendSubscribes
  <2>7. CASE Enqueue("enqueue_plain", "plain") \/ Enqueue("enqueue_send", "send")
    BY <2>7 DEF Enqueue
  <2>8. CASE LowerFlag
    BY <2>8 DEF LowerFlag, Free, Section, Waiting, Locks, UnderTimer
  <2>9. CASE NotifyTimer
    BY <2>9 DEF NotifyTimer
  <2>10. CASE JoinRefresh
    BY <2>10 DEF JoinRefresh
  <2>11. CASE ClearScreen
    BY <2>11 DEF ClearScreen
  <2>12. CASE LeaveRun
    BY <2>12 DEF LeaveRun
  <2>13. CASE RequestStop \/ CloseQueue
    <3>1. CASE RequestStop
      BY <3>1 DEF RequestStop
    <3>2. CASE CloseQueue
      BY <3>2 DEF CloseQueue
    <3> QED BY <2>13, <3>1, <3>2
  <2>14. CASE JoinWorker
    BY <2>14 DEF JoinWorker
  <2>15. CASE JoinSpin
    BY <2>15 DEF JoinSpin
  <2>16. CASE UnsubscribeAll
    BY <2>16 DEF UnsubscribeAll
  <2>17. CASE AppDies
    BY <2>17 DEF AppDies
  <2> QED
    BY <1>1, <2>1, <2>2, <2>3, <2>4, <2>5, <2>6, <2>7, <2>8, <2>9, <2>10, <2>11, <2>12,
       <2>13, <2>14, <2>15, <2>16, <2>17 DEF Main
<1>2. CASE UserCommands \/ UserQuits
  BY <1>2 DEF UserCommands, UserQuits, Commands, Places, Ends, MainPath
<1>3. CASE Refresh
  <2>1. CASE Follow("refresh")
    BY <2>1 DEF Follow, Path, RefreshPath
  <2>2. CASE RefreshTests \/ RefreshAwakes
    BY <2>2 DEF RefreshTests, RefreshAwakes
  <2>3. CASE RefreshLooks \/ RefreshPosts
    BY <2>3 DEF RefreshLooks, RefreshPosts
  <2> QED BY <1>3, <2>1, <2>2, <2>3 DEF Refresh
<1>4. CASE Spin \/ SpinExits \/ MessageComes \/ ContextGoesDown
  <2>1. CASE Follow("spin")
    BY <2>1 DEF Follow, Path, SpinPath
  <2>2. CASE SpinLooks \/ SpinPosts
    BY <2>2 DEF SpinLooks, SpinPosts
  <2>3. CASE SpinExits \/ MessageComes \/ ContextGoesDown
    <3>1. CASE SpinExits \/ ContextGoesDown
      <4>1. /\ pc'["spin"] = "exited"
            /\ \A t \in {"main", "refresh", "worker"} : pc'[t] = pc[t]
            /\ UNCHANGED <<objects, sees, flags, calls, subscribed>>
        BY <3>1 DEF SpinExits, ContextGoesDown
      <4> QED BY <4>1
    <3>2. CASE MessageComes
      BY <3>2 DEF MessageComes
    <3> QED BY <2>3, <3>1, <3>2
  <2> QED BY <1>4, <2>1, <2>2, <2>3 DEF Spin
<1>5. CASE Worker
  <2>1. CASE Follow("worker")
    BY <2>1 DEF Follow, Path, WorkerPath
  <2>2. CASE WorkerTakes \/ WorkerExits
    <3>1. CASE WorkerTakes
      BY <3>1 DEF WorkerTakes
    <3>2. CASE WorkerExits
      BY <3>2 DEF WorkerExits
    <3> QED BY <2>2, <3>1, <3>2
  <2>3. CASE Answers \/ Ask \/ AskEnqueues \/ AskRefused \/ CallbackReturns
    BY <2>3 DEF Answers, Ask, AskEnqueues, AskRefused, CallbackReturns
  <2>4. CASE \/ Unsubscribe("unsubscribe", "unsubscribing")
             \/ Unsubscribe("refused_forgot", "refused_unsubscribing")
    BY <2>4 DEF Unsubscribe
  <2> QED BY <1>5, <2>1, <2>2, <2>3, <2>4 DEF Worker
<1>6. CASE UNCHANGED vars
  BY <1>6 DEF vars
<1> QED BY <1>1, <1>2, <1>3, <1>4, <1>5, <1>6 DEF Next

LEMMA InvariantKept == IInv /\ [Next]_vars => IInv'
BY TypeKept, ExclusionKept, PhasesKept DEF IInv

-----------------------------------------------------------------------------
(***************************************************************************)
(* The theorems.                                                           *)
(***************************************************************************)
LEMMA Invariant == Spec => []IInv
BY InitSound, InvariantKept, PTL DEF Spec

(* Every thread is at one of its places, with the data that go with it.    *)
THEOREM LifecycleTypeCorrect == Spec => []TypeOK
<1>1. IInv => TypeOK
  BY DEF IInv
<1> QED BY Invariant, <1>1, PTL

(* The places of two threads that hold the same lock are never taken at    *)
(* once: what the sections of the model say of the locks is consistent.    *)
THEOREM LocksAlwaysExclude == Spec => []MutualExclusion
<1>1. IInv => MutualExclusion
  BY DEF IInv
<1> QED BY Invariant, <1>1, PTL

(* However many calls wait, the threads never wait for each other in a     *)
(* circle, neither for locks nor at a join.                                *)
THEOREM NeverCircularWait == Spec => []NoCircularWait
BY WaitsNeverClose, PTL

(* The application is there for whoever uses it, the screen for the        *)
(* refresh thread, in every order in which run(), stop() and the           *)
(* destructors meet the threads.                                           *)
THEOREM ObjectsAlwaysOutliveUse == Spec => []ObjectsOutliveUse
<1>1. IInv => ObjectsOutliveUse
  BY DEF IInv, TypeOK, ScreenSound, RefreshSound, AppSound, ObjectsOutliveUse, Off, Quiet,
     Threads, Places, Ends, SpinPath, RefreshPath, WorkerPath
<1> QED BY Invariant, <1>1, PTL

(* Main never joins a refresh thread that sleeps: no wakeup of             *)
(* stop_refresh_timer is lost.                                             *)
THEOREM TimerAlwaysWakes == Spec => []TimerWakesAtOnce
<1>1. IInv => TimerWakesAtOnce
  BY DEF IInv, TimerSound, TimerWakesAtOnce
<1> QED BY Invariant, <1>1, PTL

=============================================================================
