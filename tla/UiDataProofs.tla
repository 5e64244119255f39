---------------------------- MODULE UiDataProofs ----------------------------
(***************************************************************************)
(* Proofs about the data of the Topics tab, for any topics, listings,      *)
(* message limit and number of messages.                                   *)
(***************************************************************************)
EXTENDS UiData, TLAPS

(***************************************************************************)
(* The inductive invariant.  Only the UI thread changes the subscriptions, *)
(* and it publishes them at once: snapshot and menu never lag behind in    *)
(* that respect, although a refresh holds back the rest.                   *)
(***************************************************************************)
SubscriptionsShown ==
  /\ snapshot.subscribed = subscribed
  /\ \A i \in DOMAIN menu : menu[i].marked <=> menu[i].topic \in subscribed

\* Between its two stores a refresh has published the snapshot.
SnapshotFirst ==
  ~Unlocked /\ step = "menus" => snapshot = Copy(labels, subscribed, messages)

IInv ==
  /\ TypeOK
  /\ LabelsAgree /\ PublishedIsCurrent
  /\ SubscriptionsShown /\ SnapshotFirst
  /\ EchoesAreMarked /\ EchoIsLatest /\ LeftoverIsOneMessage

(* Labelling a list gives labels, marked where they should be.             *)
LEMMA LabelledType ==
  ASSUME NEW list \in Seq(Topics), NEW marked \in SUBSET Topics
  PROVE  /\ Labelled(list, marked) \in Seq(Label)
         /\ \A i \in DOMAIN Labelled(list, marked) :
              Labelled(list, marked)[i].marked <=> Labelled(list, marked)[i].topic \in marked
<1>1. /\ Len(list) \in Nat /\ DOMAIN list = 1..Len(list)
      /\ \A i \in DOMAIN list : list[i] \in Topics
  OBVIOUS
<1>2. \A i \in DOMAIN list :
        [topic |-> list[i], marked |-> list[i] \in marked] \in Label
  <2> SUFFICES ASSUME NEW t \in Topics
               PROVE  [topic |-> t, marked |-> t \in marked] \in Label
    BY <1>1
  <2>1. (t \in marked) \in BOOLEAN
    OBVIOUS
  <2> QED  BY <2>1, Zenon DEF Label
<1>3. Labelled(list, marked) \in [1..Len(list) -> Label]
  BY <1>1, <1>2 DEF Labelled
<1>4. Labelled(list, marked) \in Seq(Label)
  BY <1>1, <1>3
<1> QED  BY <1>1, <1>4 DEF Labelled

(* The limit holds, and one message adds at most one.                      *)
LEMMA KeepType ==
  ASSUME NEW q \in Seq(Nat), Len(q) <= Cap, NEW m \in Nat
  PROVE  /\ Keep(q, m) \in Seq(Nat)
         /\ Len(Keep(q, m)) <= Cap
         /\ Len(Keep(q, m)) <= Len(q) + 1
<1>1. CASE Len(q) >= Cap
  <2>1. q # << >> /\ Tail(q) \in Seq(Nat) /\ Len(Tail(q)) = Len(q) - 1
    BY <1>1, UiAssumption
  <2> QED  BY <1>1, <2>1, UiAssumption DEF Keep
<1>2. CASE ~(Len(q) >= Cap)
  BY <1>2, UiAssumption DEF Keep
<1> QED  BY <1>1, <1>2

(* If q holds the latest messages up to n - 1, then Keep(q, n) holds the   *)
(* latest up to n.                                                         *)
LEMMA KeepLatest ==
  ASSUME NEW q \in Seq(Nat), Len(q) <= Cap, NEW n \in Nat,
         \A i \in 1..Len(q) : q[i] + Len(q) = n - 1 + i
  PROVE  \A i \in 1..Len(Keep(q, n)) : Keep(q, n)[i] + Len(Keep(q, n)) = n + i
<1>0. Len(q) \in Nat /\ Cap \in Nat \ {0} /\ n \in Nat
  BY UiAssumption
<1>1. CASE Len(q) >= Cap
  <2>1. Len(q) = Cap /\ q # << >>
    BY <1>0, <1>1
  <2>2. /\ Tail(q) \in Seq(Nat) /\ Len(Tail(q)) = Cap - 1
        /\ \A i \in 1..(Cap - 1) : Tail(q)[i] = q[i + 1]
    BY <1>0, <2>1
  <2>3. Keep(q, n) = Append(Tail(q), n)
    BY <1>1 DEF Keep
  <2>4. /\ Len(Keep(q, n)) = Cap /\ Keep(q, n)[Cap] = n
        /\ \A i \in 1..(Cap - 1) : Keep(q, n)[i] = Tail(q)[i]
    BY <1>0, <2>2, <2>3
  <2>5. \A i \in 1..(Cap - 1) : q[i + 1] \in Nat /\ q[i + 1] + Cap = n + i
    BY <1>0, <2>1
  <2>6. ASSUME NEW i \in 1..Cap  PROVE Keep(q, n)[i] + Cap = n + i
    <3>1. CASE i = Cap
      BY <1>0, <2>4, <3>1
    <3>2. CASE i # Cap
      <4>1. i \in 1..(Cap - 1)
        BY <1>0, <3>2
      <4>2. Keep(q, n)[i] = q[i + 1]
        BY <2>2, <2>4, <4>1
      <4> QED  BY <2>5, <4>1, <4>2
    <3> QED  BY <3>1, <3>2
  <2> QED  BY <2>4, <2>6
<1>2. CASE ~(Len(q) >= Cap)
  <2>1. Keep(q, n) = Append(q, n)
    BY <1>2 DEF Keep
  <2>2. /\ Len(Keep(q, n)) = Len(q) + 1 /\ Keep(q, n)[Len(q) + 1] = n
        /\ \A i \in 1..Len(q) : Keep(q, n)[i] = q[i] /\ q[i] \in Nat
    BY <1>0, <2>1
  <2>3. ASSUME NEW i \in 1..(Len(q) + 1)
        PROVE  Keep(q, n)[i] + (Len(q) + 1) = n + i
    <3>1. CASE i = Len(q) + 1
      BY <1>0, <2>2, <3>1
    <3>2. CASE i # Len(q) + 1
      <4>1. i \in 1..Len(q)
        BY <1>0, <3>2
      <4>2. Keep(q, n)[i] = q[i] /\ q[i] \in Nat /\ q[i] + Len(q) = n - 1 + i
        BY <2>2, <4>1
      <4>3. i \in Nat
        BY <4>1
      <4> DEFINE a == q[i]
                 l == Len(q)
      <4>4. a \in Nat /\ l \in Nat /\ a + l = n - 1 + i
        BY <1>0, <4>2
      <4> HIDE DEF a, l
      <4>5. a + (l + 1) = n + i
        BY <1>0, <4>3, <4>4
      <4> QED  BY <4>2, <4>5 DEF a, l
    <3> QED  BY <3>1, <3>2
  <2>4. 1..Len(Keep(q, n)) = 1..(Len(q) + 1)
    BY <2>2
  <2> QED  BY <2>2, <2>3, <2>4
<1> QED  BY <1>1, <1>2

(* The constructor publishes what it puts into the lists.                  *)
LEMMA InitEstablishes == Init => IInv
<1> SUFFICES ASSUME Init PROVE IInv
  OBVIOUS
<1>1. Demo \in Seq(Topics) /\ {} \in SUBSET Topics
  BY UiAssumption
<1>2. /\ labels \in Seq(Label)
      /\ \A i \in DOMAIN labels : labels[i].marked <=> labels[i].topic \in {}
  <2>1. /\ Labelled(Demo, {}) \in Seq(Label)
        /\ \A i \in DOMAIN Labelled(Demo, {}) :
             Labelled(Demo, {})[i].marked <=> Labelled(Demo, {})[i].topic \in {}
    BY <1>1, LabelledType
  <2>2. labels = Labelled(Demo, {})
    BY DEF Init
  <2> QED  BY <2>1, <2>2, Zenon
<1>3. << >> \in Seq(Nat) /\ Len(<< >>) = 0
  OBVIOUS
<1>4. TypeOK
  BY <1>1, <1>2, <1>3, UiAssumption DEF Init, TypeOK, Copy
<1>5. LabelsAgree /\ PublishedIsCurrent /\ SnapshotFirst /\ EchoesAreMarked
  BY DEF Init, LabelsAgree, PublishedIsCurrent, SnapshotFirst, EchoesAreMarked, Unlocked
<1>6. SubscriptionsShown
  BY <1>2 DEF Init, SubscriptionsShown, Copy
<1>7. EchoIsLatest
  BY <1>3 DEF Init, EchoIsLatest, Delivered
<1>8. LeftoverIsOneMessage
  BY <1>3 DEF Init, LeftoverIsOneMessage
<1> QED  BY <1>4, <1>5, <1>6, <1>7, <1>8 DEF IInv
(* A toggle keeps the invariant: it rebuilds the labels and publishes.     *)
LEMMA ToggleKeeps ==
  ASSUME IInv, KeyToggles
  PROVE  IInv'
<1> USE DEF IInv
<1>1. PICK i \in DOMAIN topics_list : toggle_topic_subscription(i)
  BY DEF KeyToggles, toggle_topic_subscription
<1> DEFINE t == topics_list[i]
<1>2. t \in Topics
  BY DEF TypeOK
<1>3. /\ Unlocked /\ Unlocked'
      /\ labels' = Labelled(topics_list, subscribed') /\ topics_list' = topics_list
      /\ snapshot' = Copy(labels', subscribed', messages') /\ menu' = labels'
      /\ UNCHANGED <<connected, screen, mutex, step, ui, spin, taken, pursued>>
  BY <1>1 DEF toggle_topic_subscription, PublishSnapshot, PublishMenus, Unlocked
<1>4. /\ subscribed' \in SUBSET Topics
      /\ subs' \in [Topics -> {"none", "echo", "feedback"}]
      /\ messages' \in [Topics -> Seq(Nat)]
      /\ \A u \in Topics : subs'[u] = "echo" => u \in subscribed'
      /\ \A u \in Topics : messages'[u] \in {messages[u], << >>}
      /\ \A u \in Topics \ subscribed' :
           messages'[u] = << >> \/ (u \notin subscribed /\ messages'[u] = messages[u])
  <2> HIDE DEF t
  <2>1. CASE ToggleOff(t)
    <3>1. << >> \in Seq(Nat)
      OBVIOUS
    <3> QED
      BY <1>2, <2>1, <3>1 DEF ToggleOff, unsubscribe_topic, TypeOK, EchoesAreMarked
  <2>2. CASE ToggleOn(t)
    BY <1>2, <2>2 DEF ToggleOn, subscribe_topic, TypeOK, EchoesAreMarked
  <2> QED  BY <1>1, <2>1, <2>2 DEF t, toggle_topic_subscription
<1>5. /\ labels' \in Seq(Label)
      /\ \A j \in DOMAIN labels' : labels'[j].marked <=> labels'[j].topic \in subscribed'
  <2> DEFINE new == Labelled(topics_list, subscribed')
  <2>1. /\ new \in Seq(Label)
        /\ \A j \in DOMAIN new : new[j].marked <=> new[j].topic \in subscribed'
    BY <1>4, LabelledType DEF TypeOK
  <2>2. labels' = new
    BY <1>3
  <2> HIDE DEF new
  <2> QED  BY <2>1, <2>2, Zenon
<1>6. Len(<< >>) = 0 /\ Cap \in Nat
  BY UiAssumption
<1>7. TypeOK'
  <2>1. \A u \in Topics : Len(messages'[u]) <= Cap
    BY <1>4, <1>6 DEF TypeOK
  <2>2. snapshot' \in [labels : Seq(Label), subscribed : SUBSET Topics,
                       messages : [Topics -> Seq(Nat)]]
    BY <1>3, <1>4, <1>5 DEF Copy
  <2> QED  BY <1>3, <1>4, <1>5, <2>1, <2>2 DEF TypeOK
<1>8. LabelsAgree' /\ PublishedIsCurrent' /\ SnapshotFirst' /\ EchoesAreMarked'
  BY <1>3, <1>4 DEF LabelsAgree, PublishedIsCurrent, SnapshotFirst, EchoesAreMarked
<1>9. SubscriptionsShown'
  BY <1>3, <1>5 DEF SubscriptionsShown, Copy
<1>10. EchoIsLatest'
  <2>1. \A u \in Topics : Delivered(u)' = Delivered(u)
    BY <1>3 DEF Delivered
  <2> QED  BY <1>4, <1>6, <2>1 DEF EchoIsLatest
<1>11. LeftoverIsOneMessage'
  BY <1>3, <1>4, <1>6 DEF LeftoverIsOneMessage
<1> QED  BY <1>7, <1>8, <1>9, <1>10, <1>11

(* The steps of a refresh keep it: the update under the mutex, and the     *)
(* publication in two stores.                                              *)
LEMMA RefreshKeeps ==
  ASSUME IInv,
         (\E who \in {"timer", "key"} : RefreshLocks(who))
           \/ RefreshQueries \/ RefreshStores \/ RefreshPublishes
  PROVE  IInv'
<1> USE DEF IInv
<1>1. UNCHANGED <<connected, subscribed, messages, subs, screen, ui, spin, taken, pursued>>
  BY DEF RefreshLocks, RefreshQueries, RefreshStores, RefreshPublishes, working, shown
<1>2. EchoesAreMarked' /\ EchoIsLatest' /\ LeftoverIsOneMessage'
  BY <1>1 DEF EchoesAreMarked, EchoIsLatest, Delivered, LeftoverIsOneMessage
<1>3. CASE \E who \in {"timer", "key"} : RefreshLocks(who)
  <2>1. /\ mutex' \in {"timer", "key"} /\ step' = "query"
        /\ UNCHANGED <<working, shown>>
    BY <1>3 DEF RefreshLocks
  <2> QED
    BY <1>1, <1>2, <2>1 DEF working, shown, TypeOK, LabelsAgree, PublishedIsCurrent,
       SubscriptionsShown, SnapshotFirst, Unlocked
<1>4. CASE RefreshQueries
  <2>1. /\ mutex # "none" /\ mutex' = mutex /\ step' = "store"
        /\ snapshot' = snapshot /\ menu' = menu
    BY <1>4 DEF RefreshQueries, Unlocked, shown
  <2>2. /\ topics_list' \in Seq(Topics)
        /\ labels' = Labelled(topics_list', subscribed)
    BY <1>4, UiAssumption DEF RefreshQueries, RefreshUpdates, LabelsAgree, TypeOK
  <2>3. labels' \in Seq(Label)
    BY <2>2, LabelledType DEF TypeOK
  <2> QED
    BY <1>1, <1>2, <2>1, <2>2, <2>3 DEF TypeOK, LabelsAgree, PublishedIsCurrent,
       SubscriptionsShown, SnapshotFirst, Unlocked
<1>5. CASE RefreshStores
  <2>1. /\ mutex # "none" /\ mutex' = mutex /\ step' = "menus"
        /\ UNCHANGED <<topics_list, labels, menu>>
        /\ snapshot' = Copy(labels, subscribed, messages)
    BY <1>5 DEF RefreshStores, PublishSnapshot, Unlocked, working
  <2>2. TypeOK'
    BY <1>1, <2>1 DEF TypeOK, Copy
  <2> QED
    BY <1>1, <1>2, <2>1, <2>2 DEF LabelsAgree, PublishedIsCurrent, SubscriptionsShown,
       SnapshotFirst, Unlocked, Copy
<1>6. CASE RefreshPublishes
  <2>1. /\ mutex # "none" /\ mutex' = "none" /\ step = "menus" /\ step' = "query"
        /\ UNCHANGED <<topics_list, labels, snapshot>> /\ menu' = labels
    BY <1>6 DEF RefreshPublishes, PublishMenus, Unlocked, working
  <2>2. TypeOK'
    BY <1>1, <2>1 DEF TypeOK
  <2>3. LabelsAgree' /\ PublishedIsCurrent' /\ SnapshotFirst'
    BY <1>1, <2>1 DEF LabelsAgree, PublishedIsCurrent, SnapshotFirst, Unlocked
  <2>4. \A j \in DOMAIN labels : labels[j].marked <=> labels[j].topic \in subscribed
    <3> DEFINE now == Labelled(topics_list, subscribed)
    <3>1. \A j \in DOMAIN now : now[j].marked <=> now[j].topic \in subscribed
      BY LabelledType DEF TypeOK
    <3>2. labels = now
      BY DEF LabelsAgree
    <3> HIDE DEF now
    <3> QED  BY <3>1, <3>2, Zenon
  <2>5. SubscriptionsShown'
    BY <1>1, <2>1, <2>4 DEF SubscriptionsShown
  <2> QED  BY <1>2, <2>2, <2>3, <2>5
<1> QED  BY <1>3, <1>4, <1>5, <1>6

(* A message that is taken and later stored keeps it.                      *)
LEMMA SpinKeeps ==
  ASSUME IInv, (\E t \in Topics : SpinTakes(t)) \/ SpinStores
  PROVE  IInv'
<1> USE DEF IInv
<1>1. CASE \E t \in Topics : SpinTakes(t)
  <2>1. PICK t \in Topics : SpinTakes(t)
    BY <1>1
  <2>2. /\ spin = "idle" /\ spin' = t /\ t \in subscribed
        /\ taken[t] \in 0..MaxMsgs /\ taken[t] < MaxMsgs
        /\ taken' = [taken EXCEPT ![t] = @ + 1]
        /\ UNCHANGED <<connected, topics_list, labels, subscribed, messages, subs,
                       snapshot, menu, screen, mutex, step, ui, pursued>>
    BY <2>1 DEF SpinTakes, working, shown, EchoesAreMarked, TypeOK
  <2>3. /\ taken' \in [Topics -> 0..MaxMsgs] /\ taken'[t] = taken[t] + 1
        /\ \A u \in Topics \ {t} : taken'[u] = taken[u]
    BY <2>2, UiAssumption DEF TypeOK
  <2>4. TypeOK' /\ LabelsAgree' /\ SnapshotFirst' /\ EchoesAreMarked'
    BY <2>2, <2>3 DEF TypeOK, LabelsAgree, SnapshotFirst, EchoesAreMarked, Unlocked
  <2>5. PublishedIsCurrent' /\ SubscriptionsShown' /\ LeftoverIsOneMessage'
    BY <2>2 DEF PublishedIsCurrent, SubscriptionsShown, LeftoverIsOneMessage, Unlocked
  <2>6. EchoIsLatest'
    <3>1. \A u \in Topics : Delivered(u)' = Delivered(u)
      BY <2>2, <2>3, UiAssumption DEF Delivered, TypeOK
    <3> QED  BY <2>2, <3>1 DEF EchoIsLatest
  <2> QED  BY <2>4, <2>5, <2>6
<1>2. CASE SpinStores
  <2>0. PICK t \in Topics : t = spin
    BY <1>2 DEF SpinStores, TypeOK
  <2> DEFINE q == messages[t]
             n == taken[t]
  <2>1. /\ spin = t /\ Unlocked /\ spin' = "idle"
        /\ messages' = [messages EXCEPT ![t] = Keep(q, n)]
        /\ snapshot' = Copy(labels, subscribed, messages')
        /\ UNCHANGED <<connected, topics_list, labels, subscribed, subs, menu, screen,
                       mutex, step, ui, taken, pursued>>
    BY <1>2, <2>0 DEF SpinStores, PublishSnapshot
  <2>2. q \in Seq(Nat) /\ Len(q) <= Cap /\ n \in Nat
    BY <2>1, UiAssumption DEF TypeOK
  <2>3. /\ Keep(q, n) \in Seq(Nat) /\ Len(Keep(q, n)) <= Cap
        /\ Len(Keep(q, n)) <= Len(q) + 1
    BY <2>2, KeepType
  <2>4. /\ messages' \in [Topics -> Seq(Nat)] /\ messages'[t] = Keep(q, n)
        /\ \A u \in Topics \ {t} : messages'[u] = messages[u]
    BY <2>1, <2>3 DEF TypeOK
  <2>5. TypeOK'
    BY <2>1, <2>3, <2>4 DEF TypeOK, Copy
  <2>6. LabelsAgree' /\ PublishedIsCurrent' /\ SnapshotFirst' /\ EchoesAreMarked'
    BY <2>1 DEF LabelsAgree, PublishedIsCurrent, SnapshotFirst, EchoesAreMarked, Unlocked
  <2>7. SubscriptionsShown'
    BY <2>1 DEF SubscriptionsShown, Copy
  <2>8. LeftoverIsOneMessage'
    <3> SUFFICES ASSUME NEW u \in Topics, u \notin subscribed
                 PROVE  Len(messages'[u]) <= (IF spin' = u THEN 0 ELSE 1)
      BY <2>1 DEF LeftoverIsOneMessage
    <3>1. spin' # u
      BY <2>1, UiAssumption
    <3>2. CASE u = t
      BY <2>1, <2>2, <2>3, <2>4, <3>1, <3>2 DEF LeftoverIsOneMessage
    <3>3. CASE u # t
      BY <2>1, <2>4, <3>1, <3>3 DEF LeftoverIsOneMessage
    <3> QED  BY <3>2, <3>3
  <2>9. EchoIsLatest'
    <3>1. /\ Delivered(t) = n - 1 /\ Delivered(t)' = n
          /\ \A u \in Topics \ {t} : Delivered(u)' = Delivered(u)
      BY <2>1, UiAssumption DEF Delivered, TypeOK
    <3>2. \A i \in 1..Len(q) : q[i] + Len(q) = n - 1 + i
      BY <2>1, <3>1 DEF EchoIsLatest
    <3>3. \A i \in 1..Len(Keep(q, n)) : Keep(q, n)[i] + Len(Keep(q, n)) = n + i
      BY <2>2, <3>2, KeepLatest
    <3>4. \A u \in Topics \ {t} : \A i \in 1..Len(messages'[u]) :
            messages'[u][i] + Len(messages'[u]) = Delivered(u)' + i
      BY <2>4, <3>1 DEF EchoIsLatest
    <3> QED  BY <2>4, <3>1, <3>3, <3>4 DEF EchoIsLatest
  <2> QED  BY <2>5, <2>6, <2>7, <2>8, <2>9
<1> QED  BY <1>1, <1>2
(* Drawing and the subscriptions of the action client touch nothing that   *)
(* the topics are shown with, and start no echo.                           *)
LEMMA OthersKeep ==
  ASSUME IInv,
         \/ Render \/ RenderResponse \/ RenderLocks \/ UNCHANGED vars
         \/ \E t \in FeedbackTopics : GoalSent(t) \/ GoalOver(t)
  PROVE  IInv'
<1> USE DEF IInv
<1>1. /\ UNCHANGED <<connected, topics_list, labels, subscribed, messages, snapshot,
                     menu, mutex, step, spin, taken>>
      /\ ui' \in {ui, "free", "drawing"} /\ screen' \in {screen, menu}
  BY DEF Render, RenderResponse, RenderLocks, GoalSent, GoalOver, vars, working, shown
<1>2. /\ subs' \in [Topics -> {"none", "echo", "feedback"}]
      /\ \A u \in Topics : subs'[u] = "echo" => subs[u] = "echo"
      /\ pursued' \in SUBSET FeedbackTopics
  <2>1. CASE Render \/ RenderResponse \/ RenderLocks \/ UNCHANGED vars
    BY <2>1 DEF Render, RenderResponse, RenderLocks, vars, TypeOK
  <2>2. CASE \E t \in FeedbackTopics : GoalSent(t) \/ GoalOver(t)
    BY <2>2, UiAssumption DEF GoalSent, GoalOver, subscribe_topic, unsubscribe_topic, TypeOK
  <2> QED  BY <2>1, <2>2
<1>3. TypeOK'
  BY <1>1, <1>2 DEF TypeOK
<1>4. LabelsAgree' /\ PublishedIsCurrent' /\ SubscriptionsShown' /\ SnapshotFirst'
  BY <1>1 DEF LabelsAgree, PublishedIsCurrent, SubscriptionsShown, SnapshotFirst, Unlocked
<1>5. EchoesAreMarked' /\ EchoIsLatest' /\ LeftoverIsOneMessage'
  BY <1>1, <1>2 DEF EchoesAreMarked, EchoIsLatest, Delivered, LeftoverIsOneMessage
<1> QED  BY <1>3, <1>4, <1>5

(* Every step of the UI, refresh and spin threads keeps the invariant.     *)
LEMMA NextKeeps == IInv /\ [Next]_vars => IInv'
  BY ToggleKeeps, RefreshKeeps, SpinKeeps, OthersKeep DEF Next

(* The data of the Topics tab stay of their types, and no echo window      *)
(* grows beyond the limit.                                                 *)
THEOREM UiTypeCorrect == Spec => []TypeOK
<1>1. IInv => TypeOK  BY DEF IInv
<1> QED  BY InitEstablishes, NextKeeps, <1>1, PTL DEF Spec

(* Labels and list, snapshot and working copies never drift apart.         *)
THEOREM LabelsAlwaysAgree == Spec => []LabelsAgree
<1>1. IInv => LabelsAgree  BY DEF IInv
<1> QED  BY InitEstablishes, NextKeeps, <1>1, PTL DEF Spec

(* A free mutex means that snapshot and menu are up to date.               *)
THEOREM PublishedAlwaysCurrent == Spec => []PublishedIsCurrent
<1>1. IInv => PublishedIsCurrent  BY DEF IInv
<1> QED  BY InitEstablishes, NextKeeps, <1>1, PTL DEF Spec

(* Any two lock-free reads of Render() agree on what is subscribed.        *)
THEOREM MarksAlwaysMatch == Spec => []MarksMatchWindows
<1>1. IInv => MarksMatchWindows
  BY DEF IInv, SubscriptionsShown, MarksMatchWindows
<1> QED  BY InitEstablishes, NextKeeps, <1>1, PTL DEF Spec

(* No topic echoes unmarked.                                               *)
THEOREM EchoesAlwaysMarked == Spec => []EchoesAreMarked
<1>1. IInv => EchoesAreMarked  BY DEF IInv
<1> QED  BY InitEstablishes, NextKeeps, <1>1, PTL DEF Spec

(* The echo window is the tail of what was delivered.                      *)
THEOREM EchoAlwaysLatest == Spec => []EchoIsLatest
<1>1. IInv => EchoIsLatest  BY DEF IInv
<1> QED  BY InitEstablishes, NextKeeps, <1>1, PTL DEF Spec

(* A late callback leaves at most one message behind.                      *)
THEOREM LeftoverAlwaysOneMessage == Spec => []LeftoverIsOneMessage
<1>1. IInv => LeftoverIsOneMessage  BY DEF IInv
<1> QED  BY InitEstablishes, NextKeeps, <1>1, PTL DEF Spec

\* The list is always one that was listed.
Listed == topics_list \in Listings \cup {Demo}

LEMMA ListedKept == Listed /\ [Next]_vars => Listed'
<1> SUFFICES ASSUME Listed, [Next]_vars PROVE Listed'
  OBVIOUS
<1>1. CASE RefreshQueries
  BY <1>1 DEF RefreshQueries, RefreshUpdates, Listed
<1>2. CASE ~RefreshQueries
  <2>1. UNCHANGED topics_list
    BY <1>2 DEF Next, vars, working, KeyToggles, toggle_topic_subscription, Render, RenderResponse,
       RenderLocks, RefreshLocks, RefreshStores, RefreshPublishes, SpinTakes, SpinStores, GoalSent,
       GoalOver
  <2> QED  BY <2>1 DEF Listed
<1> QED  BY <1>1, <1>2

\* Only the toggle changes what is subscribed.
LEMMA OnlyTogglesSubscribe ==
  ASSUME Next, subscribed' # subscribed
  PROVE  KeyToggles
  BY DEF Next, working, Render, RenderResponse, RenderLocks, RefreshLocks, RefreshQueries,
     RefreshStores, RefreshPublishes, SpinTakes, SpinStores, GoalSent, GoalOver

(* Flipping the mark of a label. *)
LEMMA MarkFlips ==
  ASSUME NEW x, NEW b, NEW r, r = [topic |-> x, marked |-> b]
  PROVE  [r EXCEPT !.marked = ~@] = [topic |-> x, marked |-> ~b]
<1>1. r.marked = b
  BY Zenon
<1>2. (~r.marked) = (~b)
  BY <1>1, Zenon
<1>3. [r EXCEPT !.marked = ~@] = [r EXCEPT !.marked = ~r.marked]
  BY Zenon
<1>4. \A c : [r EXCEPT !.marked = c] = [topic |-> x, marked |-> c]
  BY SMT
<1>5. [r EXCEPT !.marked = ~r.marked] = [topic |-> x, marked |-> ~r.marked]
  BY <1>4, Zenon
<1> QED
  BY <1>2, <1>3, <1>5, Zenon

(* Membership as a mark: equivalent memberships are equal marks. *)
LEMMA MarkOpposite ==
  ASSUME NEW x, NEW S, NEW T, x \in T <=> ~(x \in S)
  PROVE  (x \in T) = ~(x \in S)
  BY SMT

LEMMA MarkSame ==
  ASSUME NEW x, NEW S, NEW T, x \in T <=> x \in S
  PROVE  (x \in T) = (x \in S)
  BY SMT

(* A toggle hits the entry that was drawn, and no other.                   *)
THEOREM TogglesAlwaysHitDrawn == Spec => ToggleHitsDrawn
<1>1. ASSUME IInv, Listed, Next, subscribed' # subscribed, screen = menu
      PROVE  \E i \in DOMAIN screen :
               /\ labels'[i] = [screen[i] EXCEPT !.marked = ~@]
               /\ \A j \in DOMAIN screen \ {i} : labels'[j] = screen[j]
  <2>1. PICK i \in DOMAIN screen : toggle_topic_subscription(i)
    BY <1>1, OnlyTogglesSubscribe DEF KeyToggles
  <2> DEFINE x == topics_list[i]
  <2>2. /\ screen = Labelled(topics_list, subscribed)
        /\ labels' = Labelled(topics_list, subscribed')
        /\ i \in DOMAIN topics_list
    BY <1>1, <2>1 DEF toggle_topic_subscription, IInv, LabelsAgree, PublishedIsCurrent
  <2>3. \A t : t \in subscribed' <=> (IF t = x THEN t \notin subscribed ELSE t \in subscribed)
    BY <2>1 DEF toggle_topic_subscription, ToggleOff, ToggleOn
  <2>4. \A j \in DOMAIN topics_list \ {i} : topics_list[j] # x
    BY <1>1, <2>2, UiAssumption DEF Listed, NoRepetition
  <2>5. /\ DOMAIN screen = DOMAIN topics_list
        /\ \A j \in DOMAIN topics_list :
             /\ screen[j] = [topic |-> topics_list[j], marked |-> topics_list[j] \in subscribed]
             /\ labels'[j] = [topic |-> topics_list[j], marked |-> topics_list[j] \in subscribed']
    BY <2>2 DEF Labelled
  <2> HIDE DEF x
  <2>6. (x \in subscribed') = ~(x \in subscribed)
    <3>1. x \in subscribed' <=> ~(x \in subscribed)
      BY <2>3, Zenon
    <3> QED  BY <3>1, MarkOpposite, Zenon
  <2>7. labels'[i] = [screen[i] EXCEPT !.marked = ~@]
    <3>1. screen[i] = [topic |-> x, marked |-> x \in subscribed]
      BY <2>2, <2>5 DEF x
    <3>2. [screen[i] EXCEPT !.marked = ~@] = [topic |-> x, marked |-> ~(x \in subscribed)]
      <4>1. ASSUME NEW b, NEW r, r = [topic |-> x, marked |-> b]
            PROVE  [r EXCEPT !.marked = ~@] = [topic |-> x, marked |-> ~b]
        BY <4>1, MarkFlips
      <4> QED  BY <3>1, <4>1, Zenon
    <3>3. labels'[i] = [topic |-> x, marked |-> x \in subscribed']
      BY <2>2, <2>5 DEF x
    <3> QED  BY <2>6, <3>2, <3>3
  <2>8. ASSUME NEW j \in DOMAIN screen \ {i} PROVE labels'[j] = screen[j]
    <3>1. j \in DOMAIN topics_list \ {i}
      BY <2>5, <2>8
    <3>2. (topics_list[j] \in subscribed') = (topics_list[j] \in subscribed)
      <4>1. topics_list[j] # x
        BY <2>4, <3>1
      <4>2. topics_list[j] \in subscribed' <=> topics_list[j] \in subscribed
        BY <2>3, <4>1, Zenon
      <4> QED  BY <4>2, MarkSame, Zenon
    <3> QED  BY <2>5, <3>1, <3>2
  <2> QED  BY <2>7, <2>8
<1>2. IInv /\ Listed /\ [Next]_vars =>
        [subscribed' # subscribed /\ screen = menu =>
           \E i \in DOMAIN screen :
             /\ labels'[i] = [screen[i] EXCEPT !.marked = ~@]
             /\ \A j \in DOMAIN screen \ {i} : labels'[j] = screen[j]]_vars
  BY <1>1
<1>3. Init => Listed
  BY DEF Init, Listed
<1> QED
  BY InitEstablishes, NextKeeps, ListedKept, <1>2, <1>3, PTL DEF Spec, ToggleHitsDrawn

(* A topic stops echoing when it is toggled off or when a goal of its own  *)
(* is over, and in no other way.                                           *)
THEOREM EchoesEndKnowingly == Spec => EchoEndsByToggleOrGoal
<1>1. ASSUME IInv, Next, NEW t \in Topics, subs[t] = "echo", subs'[t] # "echo"
      PROVE  t \notin subscribed' \/ t \in pursued
  <2>1. subs \in [Topics -> {"none", "echo", "feedback"}]
    BY <1>1 DEF IInv, TypeOK
  <2>2. ASSUME NEW u \in Topics, NEW whose, subscribe_topic(u, whose) PROVE FALSE
    BY <1>1, <2>1, <2>2 DEF subscribe_topic
  <2>3. CASE KeyToggles
    <3>1. PICK i \in DOMAIN screen : toggle_topic_subscription(i)
      BY <2>3 DEF KeyToggles
    <3>2. topics_list[i] \in Topics
      BY <1>1, <3>1 DEF toggle_topic_subscription, IInv, TypeOK
    <3>3. ToggleOff(topics_list[i])
      BY <2>2, <3>1, <3>2 DEF toggle_topic_subscription, ToggleOn
    <3> QED  BY <1>1, <2>1, <3>2, <3>3 DEF ToggleOff, unsubscribe_topic
  <2>4. CASE \E u \in FeedbackTopics : GoalSent(u) \/ GoalOver(u)
    <3>1. PICK u \in FeedbackTopics : GoalSent(u) \/ GoalOver(u)
      BY <2>4
    <3>2. u \in Topics
      BY UiAssumption
    <3>3. GoalOver(u)
      BY <2>2, <3>1, <3>2 DEF GoalSent
    <3> QED  BY <1>1, <2>1, <3>3 DEF GoalOver, unsubscribe_topic
  <2>5. CASE ~KeyToggles /\ ~\E u \in FeedbackTopics : GoalSent(u) \/ GoalOver(u)
    BY <1>1, <2>5 DEF Next, Render, RenderResponse, RenderLocks, RefreshLocks, RefreshQueries,
       RefreshStores, RefreshPublishes, SpinTakes, SpinStores
  <2> QED  BY <2>3, <2>4, <2>5
<1>2. IInv /\ [Next]_vars =>
        [\A t \in Topics : subs[t] = "echo" /\ subs'[t] # "echo" =>
           t \notin subscribed' \/ t \in pursued]_vars
  BY <1>1
<1> QED  BY InitEstablishes, NextKeeps, <1>2, PTL DEF Spec, EchoEndsByToggleOrGoal
=============================================================================
