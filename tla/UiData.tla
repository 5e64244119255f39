------------------------------- MODULE UiData -------------------------------
(***************************************************************************)
(* The data of the Topics tab (src/app.cpp): the working copies guarded by *)
(* data_mutex_, the snapshot and the menu that Render() reads without a    *)
(* lock, and the three threads that touch them.                            *)
(*                                                                         *)
(*   UI thread       renders, toggles subscriptions, refreshes on a key    *)
(*   refresh thread  refresh_data at every tick                            *)
(*   spin thread     runs the message callbacks of subscribe_topic         *)
(*                                                                         *)
(* Whoever holds data_mutex_ for one step only is one action.  A refresh   *)
(* holds it through its graph queries and through the two separate atomic  *)
(* stores of publish_snapshot, which readers can tell apart.               *)
(*                                                                         *)
(* A list entry is its topic, a label a topic and its mark, a message its  *)
(* number.  Nodes, services and actions are copied like topics and have    *)
(* nothing else to agree with: they are left out.                          *)
(***************************************************************************)
EXTENDS Naturals, Sequences, FiniteSets

CONSTANTS
  Topics,          \* topic names
  FeedbackTopics,  \* those the action client subscribes to as well
  Listings,        \* what the graph may list, as sequences of topics
  Demo,            \* what the constructor puts into the list
  Cap,             \* messages kept per topic: 20 in the code
  MaxMsgs          \* messages that arrive per topic (a bound)

\* A listing is the keys of a std::map, so that no topic is in it twice.
NoRepetition(list) == \A i, j \in DOMAIN list : list[i] = list[j] => i = j

ASSUME UiAssumption ==
  /\ FeedbackTopics \subseteq Topics /\ "idle" \notin Topics
  /\ Listings \subseteq Seq(Topics) /\ Demo \in Seq(Topics)
  /\ \A list \in Listings \cup {Demo} : NoRepetition(list)
  /\ Cap \in Nat \ {0} /\ MaxMsgs \in Nat

VARIABLES
  connected,     \* ROS2Manager::is_connected(), settled before the UI runs
  topics_list,   \* topics_list_
  labels,        \* topics_menu_labels_
  subscribed,    \* subscribed_topics_
  messages,      \* topic_messages_map_; << >> for no entry
  subs,          \* subscriptions_ of the manager: whose callback it carries
  snapshot,      \* ui_snapshot_
  menu,          \* topics_menu_
  screen,        \* the menu as it was last drawn
  mutex,         \* which refresh holds data_mutex_ across steps, if any
  step,          \* how far that refresh is
  ui,            \* the UI thread: free, or drawing a pane that takes the mutex
  spin,          \* message in the hands of the spin thread: a topic, or "idle"
  taken,         \* messages the spin thread has taken, per topic
  pursued        \* feedback topics of goals that are under way

working == <<topics_list, labels, subscribed, messages>>
shown == <<snapshot, menu>>
vars == <<connected, working, subs, shown, screen, mutex, step, ui, spin, taken, pursued>>

Label == [topic : Topics, marked : BOOLEAN]
Unlocked == mutex = "none"

TypeOK ==
  /\ connected \in BOOLEAN
  /\ topics_list \in Seq(Topics)
  /\ labels \in Seq(Label) /\ menu \in Seq(Label) /\ screen \in Seq(Label)
  /\ subscribed \in SUBSET Topics
  /\ messages \in [Topics -> Seq(Nat)]
  /\ \A t \in Topics : Len(messages[t]) <= Cap
  /\ subs \in [Topics -> {"none", "echo", "feedback"}]
  /\ snapshot \in [labels : Seq(Label), subscribed : SUBSET Topics,
                   messages : [Topics -> Seq(Nat)]]
  /\ mutex \in {"none", "timer", "key"}
  /\ step \in {"query", "store", "menus"}
  /\ ui \in {"free", "drawing"}
  /\ spin \in Topics \cup {"idle"}
  /\ taken \in [Topics -> 0..MaxMsgs]
  /\ pursued \in SUBSET FeedbackTopics

-----------------------------------------------------------------------------
Labelled(list, marked) ==
  [i \in DOMAIN list |-> [topic |-> list[i], marked |-> list[i] \in marked]]

Copy(l, s, m) == [labels |-> l, subscribed |-> s, messages |-> m]

\* publish_snapshot(false) replaces the snapshot, publish_snapshot(true) then
\* also the menus.
PublishSnapshot == snapshot' = Copy(labels', subscribed', messages')
PublishMenus == menu' = labels'

Init ==
  /\ connected \in BOOLEAN
  /\ topics_list = Demo
  /\ labels = Labelled(Demo, {})
  /\ subscribed = {}
  /\ messages = [t \in Topics |-> << >>]
  /\ subs = [t \in Topics |-> "none"]
  /\ snapshot = Copy(labels, subscribed, messages)
  /\ menu = labels /\ screen = labels
  /\ mutex = "none" /\ step = "query"
  /\ ui = "free" /\ spin = "idle"
  /\ taken = [t \in Topics |-> 0]
  /\ pursued = {}

-----------------------------------------------------------------------------
(***************************************************************************)
(* subscribe_topic leaves an existing subscription alone and returns true; *)
(* without a connection, or when rclcpp throws, nothing is subscribed.     *)
(* Both callers ignore what it returns.                                    *)
(***************************************************************************)
subscribe_topic(t, whose) ==
  \/ connected /\ subs[t] = "none" /\ subs' = [subs EXCEPT ![t] = whose]
  \/ UNCHANGED subs

\* Mutant of unsubscribe_topic: all subscriptions go.
UnsubscribeAll(t) == subs' = [u \in Topics |-> "none"]

unsubscribe_topic(t) == subs' = [subs EXCEPT ![t] = "none"]

(***************************************************************************)
(* toggle_topic_subscription(index), in the handler of Space and Return.   *)
(* The user picks the entry where the screen shows it.                     *)
(***************************************************************************)
\* Mutants of ToggleOff: the subscription stays; the messages stay.
ToggleOffKeepsEcho(t) ==
  /\ t \in subscribed
  /\ subscribed' = subscribed \ {t}
  /\ messages' = [messages EXCEPT ![t] = << >>]
  /\ UNCHANGED subs

ToggleOffKeepsMessages(t) ==
  /\ t \in subscribed
  /\ subscribed' = subscribed \ {t}
  /\ UNCHANGED messages
  /\ unsubscribe_topic(t)

ToggleOff(t) ==
  /\ t \in subscribed
  /\ subscribed' = subscribed \ {t}
  /\ messages' = [messages EXCEPT ![t] = << >>]
  /\ unsubscribe_topic(t)

ToggleOn(t) ==
  /\ t \notin subscribed
  /\ subscribed' = subscribed \cup {t}
  /\ subscribe_topic(t, "echo")
  /\ UNCHANGED messages

\* Mutant of toggle_topic_subscription: only the snapshot is published.
ToggleKeepsMenu(i) ==
  /\ ui = "free" /\ Unlocked /\ i \in DOMAIN topics_list
  /\ ToggleOff(topics_list[i]) \/ ToggleOn(topics_list[i])
  /\ labels' = Labelled(topics_list, subscribed')
  /\ PublishSnapshot
  /\ UNCHANGED <<connected, topics_list, menu, screen, mutex, step, ui, spin, taken, pursued>>

toggle_topic_subscription(i) ==
  /\ ui = "free" /\ Unlocked /\ i \in DOMAIN topics_list
  /\ ToggleOff(topics_list[i]) \/ ToggleOn(topics_list[i])
  /\ labels' = Labelled(topics_list, subscribed')
  /\ PublishSnapshot /\ PublishMenus
  /\ UNCHANGED <<connected, topics_list, screen, mutex, step, ui, spin, taken, pursued>>

KeyToggles == \E i \in DOMAIN screen : toggle_topic_subscription(i)

(***************************************************************************)
(* The UI thread draws: the menu and the snapshot without a lock, the      *)
(* Services and Actions panes with data_mutex_ held for the response text. *)
(***************************************************************************)
Render ==
  /\ ui = "free" /\ mutex # "key"
  /\ screen' = menu
  /\ UNCHANGED <<connected, working, subs, shown, mutex, step, ui, spin, taken, pursued>>

RenderResponse ==
  /\ ui = "free" /\ mutex # "key"
  /\ ui' = "drawing"
  /\ UNCHANGED <<connected, working, subs, shown, screen, mutex, step, spin, taken, pursued>>

RenderLocks ==
  /\ ui = "drawing" /\ Unlocked
  /\ ui' = "free"
  /\ UNCHANGED <<connected, working, subs, shown, screen, mutex, step, spin, taken, pursued>>

-----------------------------------------------------------------------------
(***************************************************************************)
(* refresh_data, by the refresh thread or by the key of the UI thread.     *)
(***************************************************************************)
RefreshLocks(who) ==
  /\ Unlocked /\ connected
  /\ who = "key" => ui = "free"
  /\ mutex' = who /\ step' = "query"
  /\ UNCHANGED <<connected, working, subs, shown, screen, ui, spin, taken, pursued>>

\* Mutant of RefreshUpdates: the marks are forgotten.
RefreshUnmarks(now) ==
  IF now = topics_list
  THEN UNCHANGED <<topics_list, labels>>
  ELSE topics_list' = now /\ labels' = Labelled(now, {})

\* The graph lists `now`; the working copies change only if the list does.
\* An exception before this point skips the update, not the publication.
RefreshUpdates(now) ==
  IF now = topics_list
  THEN UNCHANGED <<topics_list, labels>>
  ELSE topics_list' = now /\ labels' = Labelled(now, subscribed)

RefreshQueries ==
  /\ ~Unlocked /\ step = "query"
  /\ step' = "store"
  /\ \/ \E now \in Listings : RefreshUpdates(now)
     \/ UNCHANGED <<topics_list, labels>>
  /\ UNCHANGED <<connected, subscribed, messages, subs, shown, screen, mutex, ui, spin, taken, pursued>>

RefreshStores ==
  /\ ~Unlocked /\ step = "store"
  /\ step' = "menus"
  /\ UNCHANGED working
  /\ PublishSnapshot
  /\ UNCHANGED <<connected, subs, menu, screen, mutex, ui, spin, taken, pursued>>

\* Mutant of RefreshPublishes: the menu is forgotten.
RefreshForgetsMenu ==
  /\ ~Unlocked /\ step = "menus"
  /\ step' = "query" /\ mutex' = "none"
  /\ UNCHANGED <<connected, working, subs, shown, screen, ui, spin, taken, pursued>>

RefreshPublishes ==
  /\ ~Unlocked /\ step = "menus"
  /\ UNCHANGED working
  /\ PublishMenus
  /\ step' = "query" /\ mutex' = "none"
  /\ UNCHANGED <<connected, subs, snapshot, screen, ui, spin, taken, pursued>>

-----------------------------------------------------------------------------
(***************************************************************************)
(* The spin thread: the executor takes a message of a live subscription,   *)
(* formats it, and runs the callback, which may have to wait for the       *)
(* mutex.  The subscription may be gone when it gets it.  A feedback       *)
(* subscription has another callback, which shows nothing here.            *)
(***************************************************************************)
SpinTakes(t) ==
  /\ spin = "idle" /\ subs[t] = "echo"
  /\ taken[t] < MaxMsgs
  /\ spin' = t
  /\ taken' = [taken EXCEPT ![t] = @ + 1]
  /\ UNCHANGED <<connected, working, subs, shown, screen, mutex, step, ui, pursued>>

\* Mutants of Keep: the limit is off by one; the newest message makes room.
KeepOneMore(msgs, m) ==
  IF Len(msgs) > Cap THEN Append(Tail(msgs), m) ELSE Append(msgs, m)

KeepOldest(msgs, m) ==
  IF Len(msgs) >= Cap THEN [msgs EXCEPT ![Cap] = m] ELSE Append(msgs, m)

Keep(msgs, m) ==
  IF Len(msgs) >= Cap THEN Append(Tail(msgs), m) ELSE Append(msgs, m)

\* Mutant of SpinStores: the snapshot is not published.
SpinStoresOnly ==
  /\ spin # "idle" /\ Unlocked
  /\ messages' = [messages EXCEPT ![spin] = Keep(@, taken[spin])]
  /\ spin' = "idle"
  /\ UNCHANGED <<connected, topics_list, labels, subscribed, subs, shown, screen,
                 mutex, step, ui, taken, pursued>>

SpinStores ==
  /\ spin # "idle" /\ Unlocked
  /\ messages' = [messages EXCEPT ![spin] = Keep(@, taken[spin])]
  /\ spin' = "idle"
  /\ UNCHANGED <<connected, topics_list, labels, subscribed>>
  /\ PublishSnapshot
  /\ UNCHANGED <<subs, menu, screen, mutex, step, ui, taken, pursued>>

(***************************************************************************)
(* The action client (module ActionClient) subscribes to a feedback topic  *)
(* when a goal is sent and unsubscribes by name when one is over: on the   *)
(* UI thread and on the worker, without data_mutex_.                       *)
(***************************************************************************)
GoalSent(t) ==
  /\ ui = "free" /\ mutex # "key"
  /\ subscribe_topic(t, "feedback")
  /\ pursued' = pursued \cup {t}
  /\ UNCHANGED <<connected, working, shown, screen, mutex, step, ui, spin, taken>>

GoalOver(t) ==
  /\ t \in pursued
  /\ unsubscribe_topic(t)
  /\ pursued' \in {pursued, pursued \ {t}}   \* another goal may go on
  /\ UNCHANGED <<connected, working, shown, screen, mutex, step, ui, spin, taken>>

Next ==
  \/ KeyToggles \/ Render \/ RenderResponse \/ RenderLocks
  \/ \E who \in {"timer", "key"} : RefreshLocks(who)
  \/ RefreshQueries \/ RefreshStores \/ RefreshPublishes
  \/ \E t \in Topics : SpinTakes(t)
  \/ SpinStores
  \/ \E t \in FeedbackTopics : GoalSent(t) \/ GoalOver(t)

Spec == Init /\ [][Next]_vars

-----------------------------------------------------------------------------
(***************************************************************************)
(* Safety.                                                                 *)
(***************************************************************************)

(* The labels are the list with the marks of the subscriptions, although   *)
(* a refresh rebuilds them only when the list changes and a toggle only    *)
(* the marks (app.cpp:250-258, 324-327).                                   *)
LabelsAgree == labels = Labelled(topics_list, subscribed)

(* Whoever gets the mutex finds the published data up to date: no writer   *)
(* lets go of it before its snapshot and menu are out.                     *)
PublishedIsCurrent ==
  Unlocked => snapshot = Copy(labels, subscribed, messages) /\ menu = labels

(* What Render() shows on the left and on the right agrees at any moment,  *)
(* also between the two stores of a refresh: a topic is marked in the menu *)
(* exactly when the snapshot has its echo window.                          *)
MarksMatchWindows ==
  \A i \in DOMAIN menu : menu[i].marked <=> menu[i].topic \in snapshot.subscribed

(* Whatever is toggled, refreshed and delivered in between, no topic goes  *)
(* on echoing unmarked.                                                    *)
EchoesAreMarked == \A t \in Topics : subs[t] = "echo" => t \in subscribed

\* All the messages taken, except the one still in the spin thread's hands.
Delivered(t) == IF spin = t THEN taken[t] - 1 ELSE taken[t]

(* The echo window of a topic shows the latest messages delivered, in      *)
(* order and without a gap.                                                *)
EchoIsLatest ==
  \A t \in Topics : \A i \in 1..Len(messages[t]) :
    messages[t][i] + Len(messages[t]) = Delivered(t) + i

(* A callback that was waiting for the mutex when its topic was toggled    *)
(* off re-creates the entry that the toggle erased (app.cpp:225, 237), but *)
(* never more than the one message.                                        *)
LeftoverIsOneMessage ==
  \A t \in Topics : t \notin subscribed =>
    Len(messages[t]) <= (IF spin = t THEN 0 ELSE 1)

(* Space and Return toggle the topic drawn at the selected place, as long  *)
(* as what is drawn is what was published last: the handler indexes the    *)
(* list, the user the menu, and no refresh comes between the two           *)
(* (app.cpp:207-212, 1508).  Nothing holds if the drawing is older.        *)
ToggleHitsDrawn ==
  [][subscribed' # subscribed /\ screen = menu =>
       \E i \in DOMAIN screen :
         /\ labels'[i] = [screen[i] EXCEPT !.marked = ~@]
         /\ \A j \in DOMAIN screen \ {i} : labels'[j] = screen[j]]_vars

(* A topic stops echoing only when it is toggled off, or when a goal whose *)
(* feedback topic it is comes to its end (ros_manager.cpp:1062, 1098).     *)
EchoEndsByToggleOrGoal ==
  [][\A t \in Topics : subs[t] = "echo" /\ subs'[t] # "echo" =>
       t \notin subscribed' \/ t \in pursued]_vars

(* Rendering never has to wait for a thread that refreshes.  app.hpp says  *)
(* so (27-30); the Services and Actions panes do wait (app.cpp:734, 827).  *)
RenderNeverWaits == ui = "drawing" => Unlocked
=============================================================================
