-------------------------- MODULE NavigationProofs --------------------------
(***************************************************************************)
(* Proofs about the keyboard, for any tabs, characters, keymaps, heights   *)
(* and any size of an int.                                                 *)
(***************************************************************************)
EXTENDS Navigation, TLAPS

\* The parts of the type invariant that steps can change.
FocusTyped ==
  /\ selected_tab \in Tabs
  /\ main_vertical_focus \in {0, 1}
  /\ pane \in [0..7 -> 0..2] /\ \A t \in 0..7 : pane[t] < PaneCount(t)
  /\ field \in [{2, 3} -> {"input", "button"}]

DialogsTyped ==
  /\ show_help \in BOOLEAN /\ show_exit_dialog \in BOOLEAN
  /\ OneDialog

DidTyped == did \in {"nothing", "exit", "refresh", "toggle", "call", "goal", "cancel"}

ScrollTyped ==
  /\ offset \in Ints
  /\ content \in 0..MaxInt /\ page \in 1..MaxInt
  /\ echoing \in BOOLEAN
  /\ scrolls \in 0..MaxScrolls
  /\ atEnd \in BOOLEAN
  /\ shown \in 0..MaxInt
  /\ way \subseteq {"up", "down", "wrapped"}

(* What is proved about the scrolling: the offset has moved from what was  *)
(* shown only the ways that were scrolled.                                 *)
FollowsWay ==
  /\ way = {} => offset = shown
  /\ way = {"down"} => shown <= offset
  /\ way = {"up"} => offset <= shown

ScrollSound == ScrollTyped /\ FollowsWay

Inner == FocusTyped /\ DialogsTyped /\ DidTyped /\ ScrollSound

IInv == TypeOK /\ OneDialog /\ FollowsWay

(* The compiled addition stays within the ints.                            *)
LEMMA WrapTyped == \A n \in Int : Wrap(n) \in Ints
<1> SUFFICES ASSUME NEW n \in Int PROVE Wrap(n) \in Ints
  OBVIOUS
<1> DEFINE a == n + MaxInt + 1
           b == 2 * (MaxInt + 1)
<1>1. MaxInt \in Nat  BY NavigationAssumption
<1>2. a \in Int /\ b \in Nat /\ b > 0  BY <1>1
<1>3. a % b \in 0..(b - 1)
  <2> HIDE DEF a, b
  <2> QED  BY <1>2
<1> QED  BY <1>1, <1>3 DEF Wrap, Ints

(* The parts make the whole.                                               *)
LEMMA Parts == IInv <=> keys \in Keymaps /\ watched \in Watched /\ Inner
  BY DEF IInv, TypeOK, Inner, FocusTyped, DialogsTyped, DidTyped, ScrollSound, ScrollTyped

LEMMA PartsKept ==
  ASSUME IInv, UNCHANGED <<keys, watched>>, Inner'
  PROVE  IInv'
  BY DEF IInv, TypeOK, Inner, FocusTyped, DialogsTyped, DidTyped, ScrollSound, ScrollTyped, FollowsWay

-----------------------------------------------------------------------------
(***************************************************************************)
(* What leaves a part alone keeps it.                                      *)
(***************************************************************************)
LEMMA SameFocus == FocusTyped /\ UNCHANGED focus => FocusTyped'
  BY DEF FocusTyped, focus

LEMMA SameDialogs == DialogsTyped /\ UNCHANGED dialogs => DialogsTyped'
  BY DEF DialogsTyped, dialogs, OneDialog

LEMMA SameScroll == ScrollSound /\ UNCHANGED scroll => ScrollSound'
  BY DEF ScrollSound, ScrollTyped, FollowsWay, scroll

(* A pane that starts again at the top has scrolled nowhere.               *)
LEMMA ToTopKeeps ==
  ASSUME ScrollSound, ToTop, echoing' \in BOOLEAN, UNCHANGED <<content, page, scrolls>>
  PROVE  ScrollSound'
<1>1. MaxInt \in Nat  BY NavigationAssumption
<1>2. 0 \in Ints /\ 0 \in 0..MaxInt  BY <1>1 DEF Ints
<1>3. ScrollTyped'  BY <1>2 DEF ToTop, ScrollSound, ScrollTyped
<1>4. FollowsWay'  BY DEF ToTop, FollowsWay
<1> QED  BY <1>3, <1>4 DEF ScrollSound

(* The helpers of the handler.                                             *)
LEMMA RestartKeeps ==
  ASSUME ScrollSound, NEW t, Restart(t)
  PROVE  ScrollSound'
<1>1. CASE watched = t
  <2>1. echoing \in BOOLEAN  BY DEF ScrollSound, ScrollTyped
  <2> QED  BY <1>1, <2>1, ToTopKeeps DEF Restart
<1>2. CASE watched # t
  BY <1>2, SameScroll DEF Restart
<1> QED  BY <1>1, <1>2

LEMMA ExitKeeps ==
  ASSUME Inner, Exit
  PROVE  Inner'
<1>1. DidTyped'  BY DEF Exit, DidTyped
<1> QED  BY <1>1, SameFocus, SameDialogs, SameScroll DEF Exit, Inner

LEMMA FocusKeeps ==
  ASSUME Inner, NEW f \in 0..2, f < PaneCount(selected_tab), NEW w \in {0, 1},
         Focus(f, w)
  PROVE  Inner'
<1>1. FocusTyped'
  <2>1. selected_tab \in 0..7  BY NavigationAssumption DEF Inner, FocusTyped
  <2> QED  BY <2>1 DEF Inner, FocusTyped, Focus, PaneCount
<1>2. DidTyped'  BY DEF Focus, DidTyped
<1>3. DialogsTyped' /\ ScrollSound'
  BY SameDialogs, SameScroll DEF Focus, Inner
<1> QED  BY <1>1, <1>2, <1>3 DEF Inner

LEMMA ShowsKeeps ==
  ASSUME Inner, NEW h \in BOOLEAN, NEW x \in BOOLEAN, ~(h /\ x), Shows(h, x)
  PROVE  Inner'
<1>1. DidTyped'  BY DEF Shows, DidTyped
<1>2. DialogsTyped'  BY DEF Shows, DialogsTyped, OneDialog
<1>3. FocusTyped' /\ ScrollSound'  BY SameFocus, SameScroll DEF Shows, Inner
<1> QED  BY <1>1, <1>2, <1>3 DEF Inner

LEMMA PaneInRange ==
  ASSUME Inner
  PROVE  /\ 0 < PaneCount(selected_tab)
         /\ pane[selected_tab] \in 0..2 /\ pane[selected_tab] < PaneCount(selected_tab)
         /\ NextPane \in 0..2 /\ NextPane < PaneCount(selected_tab)
<1>1. selected_tab \in 0..7  BY NavigationAssumption DEF Inner, FocusTyped
<1>2. PaneCount(selected_tab) \in {1, 2, 3}  BY DEF PaneCount
<1>3. pane[selected_tab] \in 0..2 /\ pane[selected_tab] < PaneCount(selected_tab)
  BY <1>1 DEF Inner, FocusTyped
<1>4. NextPane \in 0..2 /\ NextPane < PaneCount(selected_tab)
  BY <1>2, <1>3 DEF NextPane
<1> QED  BY <1>2, <1>3, <1>4

-----------------------------------------------------------------------------
(***************************************************************************)
(* The parts of the handler.                                               *)
(***************************************************************************)
LEMMA EscapeKeeps ==
  ASSUME Inner, ~show_help, Escape
  PROVE  Inner'
<1>1. CASE pane[selected_tab] # 0
  <2>1. Focus(0, 1)  BY <1>1 DEF Escape
  <2> QED  BY <2>1, PaneInRange, FocusKeeps
<1>2. CASE pane[selected_tab] = 0 /\ main_vertical_focus = 1
  <2>1. Focus(0, 0)  BY <1>2 DEF Escape
  <2> QED  BY <2>1, PaneInRange, FocusKeeps
<1>3. CASE pane[selected_tab] = 0 /\ main_vertical_focus # 1
  <2>1. Shows(show_help, TRUE)  BY <1>3 DEF Escape
  <2>2. show_help \in BOOLEAN  BY DEF Inner, DialogsTyped
  <2> QED  BY <2>1, <2>2, ShowsKeeps
<1> QED  BY <1>1, <1>2, <1>3

LEMMA DialogsKeep ==
  ASSUME Inner, NEW e,
         (show_exit_dialog /\ ExitDialog(e)) \/ (~show_exit_dialog /\ HelpDialog(e))
  PROVE  Inner'
<1>1. show_help \in BOOLEAN /\ show_exit_dialog \in BOOLEAN
  BY DEF Inner, DialogsTyped
<1>2. CASE Exit
  BY <1>2, ExitKeeps
<1>3. CASE Shows(show_help, FALSE)
  BY <1>1, <1>3, ShowsKeeps
<1>4. CASE ~show_exit_dialog /\ Shows(~(key_is("help", e) \/ e = "escape"), show_exit_dialog)
  <2> DEFINE h == ~(key_is("help", e) \/ e = "escape")
  <2>1. h \in BOOLEAN  OBVIOUS
  <2>2. Shows(h, show_exit_dialog) /\ ~(h /\ show_exit_dialog)  BY <1>4
  <2> HIDE DEF h
  <2> QED  BY <1>1, <2>1, <2>2, ShowsKeeps
<1> QED  BY <1>2, <1>3, <1>4 DEF ExitDialog, HelpDialog

LEMMA MovedTyped ==
  ASSUME ScrollSound, NEW e, e \in {"up", "down", "pageup", "pagedown", "home", "end"} \cup Wheel
  PROVE  /\ Moved(e) \in Int
         /\ e \notin Upwards => offset <= Moved(e)
         /\ e \in Upwards => e = "home" \/ Moved(e) <= offset
<1>1. MaxInt \in Nat  BY NavigationAssumption
<1>2. offset \in Int /\ page \in Nat /\ offset <= MaxInt
  BY <1>1 DEF ScrollSound, ScrollTyped, Ints
<1>3. /\ offset - 1 \in Int /\ offset - page \in Int /\ offset - 3 \in Int
      /\ offset + 1 \in Int /\ offset + page \in Int /\ offset + 3 \in Int
      /\ offset - 1 <= offset /\ offset - page <= offset /\ offset - 3 <= offset
      /\ offset <= offset + 1 /\ offset <= offset + page /\ offset <= offset + 3
  BY <1>2
<1>4. CASE e \in Upwards
  BY <1>3, <1>4 DEF Moved, Upwards
<1>5. CASE e \notin Upwards
  <2>1. e \in {"down", "pagedown", "wheeldown", "end"}  BY <1>5 DEF Upwards, Wheel
  <2> QED  BY <1>1, <1>2, <1>3, <1>5, <2>1 DEF Moved
<1> QED  BY <1>4, <1>5

(* An addition that does not overflow does not wrap.                       *)
LEMMA WrapWithin == \A n \in Ints : Wrap(n) = n
<1> SUFFICES ASSUME NEW n \in Ints PROVE Wrap(n) = n
  OBVIOUS
<1> DEFINE a == n + MaxInt + 1
           b == 2 * (MaxInt + 1)
<1>1. MaxInt \in Nat  BY NavigationAssumption
<1>2. n \in Int /\ -MaxInt-1 <= n /\ n <= MaxInt  BY <1>1 DEF Ints
<1>3. a \in Nat /\ b \in Nat /\ b > 0 /\ a < b  BY <1>1, <1>2
<1>4. a % b = a
  <2> HIDE DEF a, b
  <2> QED  BY <1>3
<1> QED  BY <1>1, <1>2, <1>4 DEF Wrap

(* A scroll event keeps to its way.                                        *)
LEMMA ScrollFollows ==
  ASSUME ScrollSound, NEW e, Scrolls(e), DetailScroll(e), watched = selected_tab
  PROVE  FollowsWay'
<1>1. e \in {"up", "down", "pageup", "pagedown", "home", "end"} \cup Wheel
  BY DEF Scrolls
<1>2. /\ offset' = Wrap(Moved(e)) /\ shown' = shown
      /\ way' = way \cup {IF Moved(e) \notin Ints THEN "wrapped"
                          ELSE IF e \in Upwards THEN "up" ELSE "down"}
  BY DEF DetailScroll
<1>3. MaxInt \in Nat  BY NavigationAssumption
<1>4. offset \in Int /\ shown \in Nat /\ way \subseteq {"up", "down", "wrapped"}
  BY <1>3 DEF ScrollSound, ScrollTyped, Ints
<1>5. CASE Moved(e) \notin Ints
  <2>1. "wrapped" \in way'  BY <1>2, <1>5
  <2> QED  BY <2>1 DEF FollowsWay
<1>6. CASE Moved(e) \in Ints /\ e \in Upwards
  <2>1. way' = way \cup {"up"} /\ offset' = Moved(e)  BY <1>2, <1>6, WrapWithin
  <2>2. way' # {} /\ way' # {"down"}  BY <2>1
  <2>3. way' = {"up"} => offset' <= shown
    <3>1. SUFFICES ASSUME way' = {"up"} PROVE offset' <= shown
      OBVIOUS
    <3>2. way = {} \/ way = {"up"}  BY <2>1, <3>1
    <3>3. offset <= shown  BY <1>4, <3>2 DEF ScrollSound, FollowsWay
    <3>4. CASE e = "home"
      BY <1>4, <2>1, <3>4 DEF Moved
    <3>5. CASE Moved(e) <= offset
      BY <1>1, <1>4, <2>1, <3>3, <3>5, MovedTyped
    <3> QED  BY <1>1, <1>6, <3>4, <3>5, MovedTyped
  <2> QED  BY <1>2, <2>2, <2>3 DEF FollowsWay
<1>7. CASE Moved(e) \in Ints /\ e \notin Upwards
  <2>1. way' = way \cup {"down"} /\ offset' = Moved(e)  BY <1>2, <1>7, WrapWithin
  <2>2. way' # {} /\ way' # {"up"}  BY <2>1
  <2>3. way' = {"down"} => shown <= offset'
    <3>1. SUFFICES ASSUME way' = {"down"} PROVE shown <= offset'
      OBVIOUS
    <3>2. way = {} \/ way = {"down"}  BY <2>1, <3>1
    <3>3. shown <= offset  BY <1>4, <3>2 DEF ScrollSound, FollowsWay
    <3>4. offset <= Moved(e) /\ Moved(e) \in Int  BY <1>1, <1>7, MovedTyped
    <3> QED  BY <1>4, <2>1, <3>3, <3>4
  <2> QED  BY <1>2, <2>2, <2>3 DEF FollowsWay
<1> QED  BY <1>5, <1>6, <1>7

LEMMA DetailScrollKeeps ==
  ASSUME Inner, NEW e, Scrolls(e), DetailScroll(e)
  PROVE  Inner'
<1>1. FocusTyped' /\ DialogsTyped'
  BY SameFocus, SameDialogs DEF Inner, DetailScroll
<1>2. DidTyped'  BY DEF DetailScroll, DidTyped
<1>3. ScrollSound'
  <2>1. CASE watched = selected_tab
    <3>1. offset' \in Ints
      <4>1. e \in {"up", "down", "pageup", "pagedown", "home", "end"} \cup Wheel
        BY DEF Scrolls
      <4>2. Moved(e) \in Int  BY <4>1, MovedTyped DEF Inner
      <4> QED  BY <2>1, <4>2, WrapTyped DEF DetailScroll
    <3>2. scrolls' \in 0..MaxScrolls
      <4>1. scrolls < MaxScrolls /\ scrolls' = scrolls + 1
        BY <2>1 DEF DetailScroll
      <4>2. MaxScrolls \in Nat  BY NavigationAssumption
      <4>3. scrolls \in 0..MaxScrolls  BY DEF Inner, ScrollSound, ScrollTyped
      <4> QED  BY <4>1, <4>2, <4>3
    <3>3. atEnd' \in BOOLEAN
      <4>1. atEnd' = (e = "end" \/ (atEnd /\ e \in {"down", "pagedown", "wheeldown"}))
        BY <2>1 DEF DetailScroll
      <4> QED  BY <4>1, Zenon
    <3>4. UNCHANGED <<content, page, echoing, shown>>  BY <2>1 DEF DetailScroll
    <3>5. way' \subseteq {"up", "down", "wrapped"}
      BY <2>1 DEF DetailScroll, Inner, ScrollSound, ScrollTyped
    <3>6. ScrollTyped'
      BY <3>1, <3>2, <3>3, <3>4, <3>5 DEF ScrollTyped, ScrollSound, Inner
    <3> QED  BY <2>1, <3>6, ScrollFollows DEF ScrollSound, Inner
  <2>2. CASE watched # selected_tab
    BY <2>2, SameScroll DEF DetailScroll, Inner
  <2> QED  BY <2>1, <2>2
<1> QED  BY <1>1, <1>2, <1>3 DEF Inner

LEMMA IgnoredKeeps ==
  ASSUME Inner, Ignored
  PROVE  Inner'
<1>1. DidTyped'  BY DEF Ignored, DidTyped
<1> QED  BY <1>1, SameFocus, SameDialogs, SameScroll DEF Ignored, Inner

LEMMA RefreshesKeeps ==
  ASSUME Inner, Refreshes
  PROVE  Inner'
<1>1. DidTyped'  BY DEF Refreshes, DidTyped
<1> QED  BY <1>1, SameFocus, SameDialogs, SameScroll DEF Refreshes, Inner

\* What the operations on the selected entry leave behind.
LEMMA OperationsKeep ==
  ASSUME ScrollSound,
         \/ Returns \/ toggle_topic_subscription
         \/ call_selected_service \/ send_selected_goal \/ cancel_selected_goal
  PROVE  DidTyped' /\ ScrollSound'
<1>1. CASE Returns
  BY <1>1, SameScroll DEF Returns, DidTyped
<1>2. CASE toggle_topic_subscription /\ ~Returns
  <2>1. did' = "toggle"  BY <1>2 DEF toggle_topic_subscription
  <2>2. ASSUME watched = 1 PROVE ScrollSound'
    <3>1. ToTop /\ echoing' \in BOOLEAN /\ UNCHANGED <<content, page, scrolls>>
      BY <1>2, <2>2, Zenon DEF toggle_topic_subscription
    <3> QED  BY <3>1, ToTopKeeps
  <2>3. ASSUME watched # 1 PROVE ScrollSound'
    <3>1. UNCHANGED scroll  BY <1>2, <2>3, Zenon DEF toggle_topic_subscription
    <3> QED  BY <3>1, SameScroll
  <2> QED  BY <2>1, <2>2, <2>3 DEF DidTyped
<1>3. CASE (call_selected_service \/ send_selected_goal \/ cancel_selected_goal) /\ ~Returns
  <2>1. did' \in {"call", "goal", "cancel"}
    BY <1>3 DEF call_selected_service, send_selected_goal, cancel_selected_goal
  <2>2. ScrollSound'
    BY <1>3, RestartKeeps, SameScroll
       DEF call_selected_service, send_selected_goal, cancel_selected_goal
  <2> QED  BY <2>1, <2>2 DEF DidTyped
<1> QED  BY <1>1, <1>2, <1>3

LEMMA CallsKeep ==
  ASSUME Inner, UNCHANGED <<focus, dialogs>>,
         \/ toggle_topic_subscription
         \/ call_selected_service \/ send_selected_goal \/ cancel_selected_goal
  PROVE  Inner'
<1>1. DidTyped' /\ ScrollSound'  BY OperationsKeep DEF Inner
<1> QED  BY <1>1, SameFocus, SameDialogs DEF Inner

LEMMA SelectTabKeeps ==
  ASSUME Inner, NEW t \in Tabs, SelectTab(t)
  PROVE  Inner'
<1>1. FocusTyped' /\ DidTyped'
  BY DEF Inner, FocusTyped, DidTyped, SelectTab
<1> QED  BY <1>1, SameDialogs, SameScroll DEF SelectTab, Inner

-----------------------------------------------------------------------------
(***************************************************************************)
(* The components, however they move the focus.                            *)
(***************************************************************************)
LEMMA PressKeeps ==
  ASSUME Inner, Press
  PROVE  Inner'
  BY CallsKeep DEF Press

LEMMA MenuKeeps ==
  ASSUME Inner, MenuMoves
  PROVE  Inner'
<1>1. FocusTyped' /\ DialogsTyped'
  BY SameFocus, SameDialogs DEF Inner, MenuMoves
<1>2. DidTyped'  BY DEF MenuMoves, DidTyped
<1>3. ScrollSound'
  BY RestartKeeps DEF MenuMoves, Inner
<1> QED  BY <1>1, <1>2, <1>3 DEF Inner

\* One pane of the selected tab gets the focus.
LEMMA PaneTyped ==
  ASSUME Inner, NEW p \in 0..PaneCount(selected_tab)-1,
         pane' = [pane EXCEPT ![selected_tab] = p], UNCHANGED <<selected_tab, field>>,
         main_vertical_focus' \in {0, 1}
  PROVE  FocusTyped'
<1>1. selected_tab \in 0..7  BY NavigationAssumption DEF Inner, FocusTyped
<1>2. PaneCount(selected_tab) \in {1, 2, 3}  BY DEF PaneCount
<1>3. p \in 0..2 /\ p < PaneCount(selected_tab)  BY <1>2
<1> QED  BY <1>1, <1>3 DEF Inner, FocusTyped, PaneCount

LEMMA FocusMovesKeeps ==
  ASSUME Inner, FocusMoves
  PROVE  Inner'
<1>1. DidTyped'  BY DEF FocusMoves, DidTyped
<1>2. FocusTyped'
  <2>1. CASE selected_tab' \in Tabs /\ UNCHANGED <<main_vertical_focus, pane, field>>
    BY <2>1 DEF Inner, FocusTyped
  <2>2. CASE main_vertical_focus' \in {0, 1} /\ UNCHANGED <<selected_tab, pane, field>>
    BY <2>2 DEF Inner, FocusTyped
  <2>3. ASSUME NEW p \in 0..PaneCount(selected_tab)-1,
               pane' = [pane EXCEPT ![selected_tab] = p],
               UNCHANGED <<selected_tab, main_vertical_focus, field>>
        PROVE  FocusTyped'
    <3>1. main_vertical_focus' \in {0, 1}  BY <2>3 DEF Inner, FocusTyped
    <3> QED  BY <2>3, <3>1, PaneTyped
  <2>4. ASSUME NEW f \in {"input", "button"}, selected_tab \in {2, 3},
               field' = [field EXCEPT ![selected_tab] = f],
               UNCHANGED <<selected_tab, main_vertical_focus, pane>>
        PROVE  FocusTyped'
    BY <2>4 DEF Inner, FocusTyped
  <2> QED  BY <2>1, <2>2, <2>3, <2>4 DEF FocusMoves
<1> QED  BY <1>1, <1>2, SameDialogs, SameScroll DEF FocusMoves, Inner

LEMMA WheelKeeps ==
  ASSUME Inner, WheelOver
  PROVE  Inner'
<1>1. DidTyped'  BY DEF WheelOver, DidTyped
<1>2. DialogsTyped'  BY SameDialogs DEF WheelOver, Inner
<1>3. ScrollSound'  BY RestartKeeps, SameScroll DEF WheelOver, Inner
<1>4. FocusTyped'
  <2>1. selected_tab' \in Tabs
    BY DEF WheelOver, Inner, FocusTyped
  <2>2. main_vertical_focus' \in {0, 1}
    BY DEF WheelOver, Inner, FocusTyped
  <2>3. field' \in [{2, 3} -> {"input", "button"}]
    BY DEF WheelOver, Inner, FocusTyped
  <2> QED  BY <2>1, <2>2, <2>3 DEF WheelOver, Inner, FocusTyped
<1> QED  BY <1>1, <1>2, <1>3, <1>4 DEF Inner

LEMMA ClickKeeps ==
  ASSUME Inner, Click
  PROVE  Inner'
<1>1. CASE ClickTab
  <2>1. FocusTyped' /\ DidTyped'
    BY <1>1 DEF ClickTab, DidTyped, Inner, FocusTyped
  <2> QED  BY <1>1, <2>1, SameDialogs, SameScroll DEF ClickTab, Inner
<1>2. ASSUME NEW p \in 0..PaneCount(selected_tab)-1, ClickPane(p)
      PROVE  Inner'
  <2>1. FocusTyped'  BY <1>2, PaneTyped DEF ClickPane
  <2>2. DidTyped' /\ DialogsTyped'  BY <1>2, SameDialogs DEF ClickPane, DidTyped, Inner
  <2>3. ScrollSound'  BY <1>2, RestartKeeps, SameScroll DEF ClickPane, Inner
  <2> QED  BY <2>1, <2>2, <2>3 DEF Inner
<1>3. ASSUME NEW f \in {"input", "button"}, ClickField(f)
      PROVE  Inner'
  <2>1. FocusTyped'
    <3>1. field' \in [{2, 3} -> {"input", "button"}] /\ selected_tab' \in Tabs
      BY <1>3 DEF ClickField, Inner, FocusTyped
    <3>2. pane' \in [0..7 -> 0..2] /\ \A t \in 0..7 : pane'[t] < PaneCount(t)
      BY <1>3 DEF ClickField, Inner, FocusTyped, PaneCount
    <3> QED  BY <1>3, <3>1, <3>2 DEF ClickField, FocusTyped
  <2>2. DidTyped' /\ ScrollSound'  BY <1>3, OperationsKeep DEF ClickField, Inner
  <2> QED  BY <1>3, <2>1, <2>2, SameDialogs DEF ClickField, Inner
<1> QED  BY <1>1, <1>2, <1>3 DEF Click

LEMMA ComponentsKeep ==
  ASSUME Inner, NEW e, Components(e)
  PROVE  Inner'
  BY IgnoredKeeps, PressKeeps, FocusMovesKeeps, MenuKeeps, WheelKeeps, ClickKeeps
     DEF Components, KeyInComponents

-----------------------------------------------------------------------------
(***************************************************************************)
(* Every step keeps the invariant.                                         *)
(***************************************************************************)
LEMMA HotkeyKeeps ==
  ASSUME Inner, NEW e, ~show_help, ~show_exit_dialog, Hotkey(e)
  PROVE  Inner'
<1>1. show_help \in BOOLEAN /\ show_exit_dialog \in BOOLEAN
      /\ show_help = FALSE /\ show_exit_dialog = FALSE
  BY DEF Inner, DialogsTyped
<1>2. CASE Shows(show_help, TRUE) \/ Shows(~show_help, show_exit_dialog)
  BY <1>1, <1>2, ShowsKeeps
<1>3. CASE Escape
  BY <1>3, EscapeKeeps
<1>4. CASE Scrolls(e) /\ DetailScroll(e)
  BY <1>4, DetailScrollKeeps
<1>5. CASE \E t \in Tabs : SelectTab(t)
  BY <1>5, SelectTabKeeps
<1>6. CASE TabKey \/ SwitchFocus
  <2>1. main_vertical_focus \in {0, 1}  BY DEF Inner, FocusTyped
  <2> QED  BY <1>6, <2>1, PaneInRange, FocusKeeps DEF TabKey, SwitchFocus
<1>7. CASE toggle_topic_subscription /\ UNCHANGED <<focus, dialogs>>
  BY <1>7, CallsKeep
<1>8. CASE Refreshes
  BY <1>8, RefreshesKeeps
<1>9. CASE (call_selected_service \/ send_selected_goal) /\ UNCHANGED <<focus, dialogs>>
  BY <1>9, CallsKeep
<1>10. CASE Components(e)
  BY <1>10, ComponentsKeep
<1> QED  BY <1>2, <1>3, <1>4, <1>5, <1>6, <1>7, <1>8, <1>9, <1>10, Zenon DEF Hotkey

LEMMA HandleKeeps ==
  ASSUME Inner, NEW e, Handle(e)
  PROVE  Inner'
<1>1. CASE Taker(e) = "exit dialog" /\ ExitDialog(e)
  BY <1>1, DialogsKeep DEF Taker
<1>2. CASE Taker(e) = "help dialog" /\ HelpDialog(e)
  BY <1>2, DialogsKeep DEF Taker
<1>3. CASE Input(e)
  <2>1. CASE LeaveInput
    BY <2>1, FocusKeeps, PaneInRange DEF LeaveInput
  <2> QED  BY <1>3, <2>1, IgnoredKeeps, ComponentsKeep DEF Input
<1>4. CASE Taker(e) = "handler" /\ Hotkey(e)
  BY <1>4, HotkeyKeeps DEF Taker
<1> QED  BY <1>1, <1>2, <1>3, <1>4, ComponentsKeep DEF Handle

(* A drawing clamps into the content, and keeps the order of offsets.      *)
LEMMA ClampedInContent ==
  ASSUME NEW n \in Int, NEW h \in Nat
  PROVE  Clamped(n, h) \in 0..LastLine(h)
  BY DEF Clamped, LastLine, Least, Greatest

LEMMA ClampedInOrder ==
  ASSUME NEW m \in Int, NEW n \in Int, NEW h \in Nat, m <= n
  PROVE  Clamped(m, h) <= Clamped(n, h)
  BY DEF Clamped, LastLine, Least, Greatest

LEMMA DrawKeeps ==
  ASSUME Inner, Draw
  PROVE  Inner'
<1>1. FocusTyped' /\ DialogsTyped'
  BY SameFocus, SameDialogs DEF Inner, Draw
<1>2. DidTyped'  BY DEF Draw, DidTyped
<1>3. ScrollSound'
  <2>1. CASE Clamps /\ ~UNCHANGED scroll
    <3>1. MaxInt \in Nat /\ MaxScrolls \in Nat  BY NavigationAssumption
    <3>2. content' \in Heights /\ page' \in Pages /\ offset' = Clamped(offset, content')
          /\ scrolls' = 0 /\ atEnd' = FALSE /\ echoing' = echoing
          /\ shown' = offset' /\ way' = {}
      BY <2>1 DEF Draw
    <3>3. content' \in 0..MaxInt /\ page' \in 1..MaxInt
      <4>1. /\ content' \in Nat /\ content' <= MaxInt
            /\ page' \in Nat \ {0} /\ page' <= MaxInt
        BY <3>2, NavigationAssumption
      <4> QED  BY <3>1, <4>1
    <3>4. offset \in Int  BY <3>1 DEF Inner, ScrollSound, ScrollTyped, Ints
    <3>5. offset' \in 0..LastLine(content')
      BY <3>1, <3>2, <3>3, <3>4, ClampedInContent
    <3>6. offset' \in Ints /\ offset' \in 0..MaxInt
      <4> DEFINE h == content'
      <4>1. h \in 0..MaxInt  BY <3>3
      <4>2. LastLine(h) \in 0..MaxInt
        <5> HIDE DEF h
        <5> QED  BY <4>1, <3>1 DEF LastLine, Greatest
      <4>3. offset' \in 0..MaxInt  BY <3>1, <3>5, <4>2
      <4> QED  BY <3>1, <4>3 DEF Ints
    <3>7. scrolls' \in 0..MaxScrolls  BY <3>1, <3>2
    <3>8. ScrollTyped'
      BY <3>2, <3>3, <3>6, <3>7 DEF Inner, ScrollSound, ScrollTyped
    <3>9. FollowsWay'  BY <3>2 DEF FollowsWay
    <3> QED  BY <3>8, <3>9 DEF ScrollSound
  <2>2. CASE UNCHANGED scroll
    BY <2>2, SameScroll DEF Inner
  <2> QED  BY <2>1, <2>2 DEF Draw
<1> QED  BY <1>1, <1>2, <1>3 DEF Inner

LEMMA InitEstablishes == Init => IInv
<1> SUFFICES ASSUME Init PROVE IInv
  OBVIOUS
<1>1. MaxInt \in Nat /\ 10 <= MaxInt /\ MaxScrolls \in Nat /\ 0 \in Tabs
  BY NavigationAssumption
<1>2. FocusTyped /\ DialogsTyped /\ DidTyped
  <2>1. \A t \in 0..7 : 0 < PaneCount(t)  BY DEF PaneCount
  <2>2. pane \in [0..7 -> 0..2] /\ \A t \in 0..7 : pane[t] < PaneCount(t)
    BY <2>1 DEF Init
  <2>3. FocusTyped  BY <1>1, <2>2 DEF Init, FocusTyped
  <2>4. DialogsTyped  BY Zenon DEF Init, DialogsTyped, OneDialog
  <2> QED  BY <2>3, <2>4 DEF Init, DidTyped
<1>3. 0 \in Ints  BY <1>1 DEF Ints
<1>4. 0 \in 0..MaxInt /\ 1 \in 0..MaxInt /\ 10 \in 1..MaxInt /\ 0 \in 0..MaxScrolls  BY <1>1
<1>5. ScrollSound  BY <1>3, <1>4 DEF Init, ScrollSound, ScrollTyped, FollowsWay
<1>6. keys \in Keymaps /\ watched \in Watched  BY DEF Init
<1> QED  BY <1>2, <1>5, <1>6, Parts DEF Inner

(* Every event and every drawing keeps the invariant.                      *)
LEMMA NextKeeps == IInv /\ [Next]_vars => IInv'
<1> SUFFICES ASSUME IInv, [Next]_vars PROVE IInv'
  OBVIOUS
<1>1. Inner  BY Parts
<1>2. UNCHANGED <<keys, watched>>  BY DEF Next, vars
<1>3. Inner'
  <2>1. CASE Draw
    BY <1>1, <2>1, DrawKeeps
  <2>2. ASSUME NEW e \in Events, Handle(e) PROVE Inner'
    BY <1>1, <2>2, HandleKeeps
  <2>3. CASE UNCHANGED vars
    <3>1. UNCHANGED focus /\ UNCHANGED dialogs /\ UNCHANGED did /\ UNCHANGED scroll
      BY <2>3 DEF vars
    <3>2. DidTyped'  BY <1>1, <3>1 DEF Inner, DidTyped
    <3> QED  BY <1>1, <3>1, <3>2, SameFocus, SameDialogs, SameScroll DEF Inner
  <2> QED  BY <2>1, <2>2, <2>3 DEF Next
<1> QED  BY <1>2, <1>3, PartsKept

-----------------------------------------------------------------------------
(* The keyboard's data stay of their types: no focus beyond the panes of   *)
(* its tab, no offset beyond the ints.                                     *)
THEOREM NavigationTypeCorrect == Spec => []TypeOK
<1>1. IInv => TypeOK  BY DEF IInv
<1> QED  BY InitEstablishes, NextKeeps, <1>1, PTL DEF Spec

(* Never two dialogs, whatever keys are configured.                        *)
THEOREM NeverTwoDialogs == Spec => []OneDialog
<1>1. IInv => OneDialog  BY DEF IInv
<1> QED  BY InitEstablishes, NextKeeps, <1>1, PTL DEF Spec

(* Esc leads to the exit dialog in at most eight presses, from anywhere    *)
(* and with any keymap: each press decreases Depth, which is below eight.  *)
THEOREM EscAlwaysLeadsOut == Spec => EscLeadsOut
<1>1. ASSUME IInv, Handle("escape"), ~show_exit_dialog
      PROVE  Depth' < Depth \/ show_exit_dialog'
  <2> USE <1>1
  <2>1. Inner  BY Parts
  <2>2. /\ show_help \in BOOLEAN /\ main_vertical_focus \in {0, 1}
        /\ selected_tab \in 0..7 /\ pane \in [0..7 -> 0..2]
    BY <2>1, NavigationAssumption DEF Inner, FocusTyped, DialogsTyped
  <2>3. \A b \in Bindings : ~key_is(b, "escape")
    BY NavigationAssumption DEF key_is, IInv, TypeOK, NavigationKeys
  <2>4. CASE show_help
    <3>1. Taker("escape") = "help dialog"  BY <2>4 DEF Taker
    <3>2. HelpDialog("escape")  BY <3>1 DEF Handle
    <3>3. Shows(~(key_is("help", "escape") \/ "escape" = "escape"), show_exit_dialog)
      BY <2>3, <3>2 DEF HelpDialog, Bindings
    <3>4. ~show_help' /\ UNCHANGED focus  BY <3>3 DEF Shows
    <3> QED  BY <2>2, <2>4, <3>4 DEF Depth, focus
  <2>5. CASE ~show_help /\ is_text_input_focused
    <3>1. Taker("escape") = "input"  BY <2>5 DEF Taker
    <3>2. LeaveInput  BY <3>1 DEF Handle, Input
    <3>3. /\ pane' = [pane EXCEPT ![selected_tab] = 0] /\ main_vertical_focus' = 1
          /\ UNCHANGED selected_tab /\ ~show_help'
      BY <2>5, <3>2 DEF LeaveInput, Focus, dialogs
    <3>4. pane[selected_tab] = 1 /\ pane'[selected_tab'] = 0
      BY <2>2, <2>5, <3>3 DEF is_text_input_focused
    <3> QED  BY <2>2, <2>5, <3>3, <3>4 DEF Depth
  <2>6. CASE ~show_help /\ ~is_text_input_focused
    <3>1. Taker("escape") = "handler"  BY <2>6 DEF Taker
    <3>2. Hotkey("escape")  BY <3>1 DEF Handle
    <3>3. Escape  BY <2>3, <3>2 DEF Hotkey, Bindings
    <3>4. CASE pane[selected_tab] # 0
      <4>1. /\ pane' = [pane EXCEPT ![selected_tab] = 0] /\ main_vertical_focus' = 1
            /\ UNCHANGED selected_tab /\ ~show_help'
        BY <2>6, <3>3, <3>4 DEF Escape, Focus, dialogs
      <4>2. pane'[selected_tab'] = 0  BY <2>2, <4>1
      <4> QED  BY <2>2, <2>6, <3>4, <4>1, <4>2 DEF Depth
    <3>5. CASE pane[selected_tab] = 0 /\ main_vertical_focus = 1
      <4>1. /\ pane' = [pane EXCEPT ![selected_tab] = 0] /\ main_vertical_focus' = 0
            /\ UNCHANGED selected_tab /\ ~show_help'
        BY <2>6, <3>3, <3>5 DEF Escape, Focus, dialogs
      <4>2. pane'[selected_tab'] = 0  BY <2>2, <4>1
      <4> QED  BY <2>2, <2>6, <3>5, <4>1, <4>2 DEF Depth
    <3>6. CASE pane[selected_tab] = 0 /\ main_vertical_focus # 1
      BY <3>3, <3>6 DEF Escape, Shows
    <3> QED  BY <3>4, <3>5, <3>6
  <2> QED  BY <2>4, <2>5, <2>6
<1>2. IInv /\ [Next]_vars =>
        [Handle("escape") /\ ~show_exit_dialog => Depth' < Depth \/ show_exit_dialog']_vars
  BY <1>1
<1> QED  BY InitEstablishes, NextKeeps, <1>2, PTL DEF Spec, EscLeadsOut

(* Every drawing goes on from the last, or from the top after a restart,   *)
(* the way the pane was scrolled since, for any events in between, any     *)
(* contents and any size of an int, as long as no sum overflowed.          *)
THEOREM AlwaysScrollsFromShown == Spec => ScrollsFromShown
<1>1. ASSUME IInv, Draw, Clamps
      PROVE  LET first == Clamped(shown, content') IN
             /\ way = {} => offset' = first
             /\ way = {"down"} => first <= offset'
             /\ way = {"up"} => offset' <= first
  <2>1. content' \in Heights /\ offset' = Clamped(offset, content')
    BY <1>1 DEF Draw
  <2>2. content' \in Nat  BY <2>1, NavigationAssumption
  <2>3. MaxInt \in Nat  BY NavigationAssumption
  <2>4. offset \in Int /\ shown \in Int  BY <1>1, <2>3 DEF IInv, TypeOK, Ints
  <2>5. FollowsWay  BY <1>1 DEF IInv
  <2> DEFINE h == content'
  <2>6. h \in Nat  BY <2>2
  <2> HIDE DEF h
  <2>7. way = {} => Clamped(offset, h) = Clamped(shown, h)  BY <2>5 DEF FollowsWay
  <2>8. way = {"down"} => Clamped(shown, h) <= Clamped(offset, h)
    BY <2>4, <2>5, <2>6, ClampedInOrder DEF FollowsWay
  <2>9. way = {"up"} => Clamped(offset, h) <= Clamped(shown, h)
    BY <2>4, <2>5, <2>6, ClampedInOrder DEF FollowsWay
  <2> QED  BY <2>1, <2>7, <2>8, <2>9 DEF h
<1>2. IInv /\ [Next]_vars =>
        [Draw /\ Clamps =>
           LET first == Clamped(shown, content') IN
           /\ way = {} => offset' = first
           /\ way = {"down"} => first <= offset'
           /\ way = {"up"} => offset' <= first]_vars
  BY <1>1
<1> QED  BY InitEstablishes, NextKeeps, <1>2, PTL DEF Spec, ScrollsFromShown

(* What is typed into an input starts nothing but the submission of the    *)
(* form, whatever keys are configured.                                     *)
THEOREM TypingNeverEverActs == Spec => TypingNeverActs
<1>1. ASSUME is_text_input_focused, dialogs = <<FALSE, FALSE>>,
             NEW e \in Events \ ({"mouse"} \cup Wheel), Handle(e)
      PROVE  /\ dialogs' = dialogs /\ selected_tab' = selected_tab
             /\ did' \in {"nothing", "call", "goal"}
  <2> DEFINE Goal == /\ dialogs' = dialogs /\ selected_tab' = selected_tab
                     /\ did' \in {"nothing", "call", "goal"}
  <2>1. /\ main_vertical_focus = 1 /\ selected_tab \in {2, 3}
        /\ pane[selected_tab] = 1 /\ field[selected_tab] = "input"
        /\ ~show_help /\ ~show_exit_dialog
    BY <1>1 DEF is_text_input_focused, dialogs
  <2>2. Taker(e) = "input"
    BY <1>1, <2>1 DEF Taker
  <2>3. ASSUME Ignored PROVE Goal
    BY <2>3 DEF Ignored, focus
  <2>4. ASSUME Press PROVE Goal
    <3>1. (call_selected_service \/ send_selected_goal) /\ UNCHANGED <<focus, dialogs>>
      BY <2>1, <2>4 DEF Press
    <3>2. did' \in {"nothing", "call", "goal"}
      BY <3>1 DEF call_selected_service, send_selected_goal, Returns
    <3> QED  BY <3>1, <3>2 DEF focus
  <2>5. ASSUME FocusMoves PROVE Goal
    BY <2>1, <2>5 DEF FocusMoves
  <2>6. ASSUME Components(e) PROVE Goal
    <3>1. Ignored \/ Press \/ FocusMoves
      BY <1>1, <2>1, <2>6 DEF Components, KeyInComponents, is_text_input_focused
    <3> QED  BY <2>3, <2>4, <2>5, <3>1
  <2>7. ASSUME Input(e) PROVE Goal
    <3>1. ASSUME LeaveInput PROVE Goal
      BY <3>1 DEF LeaveInput, Focus
    <3> QED  BY <2>3, <2>6, <2>7, <3>1 DEF Input
  <2>8. Components(e) \/ Input(e)
    BY <1>1, <2>2 DEF Handle
  <2> QED  BY <2>6, <2>7, <2>8
<1>2. [Next]_vars =>
        [is_text_input_focused /\ dialogs = <<FALSE, FALSE>>
           /\ (\E e \in Events \ ({"mouse"} \cup Wheel) : Handle(e)) =>
         /\ dialogs' = dialogs /\ selected_tab' = selected_tab
         /\ did' \in {"nothing", "call", "goal"}]_vars
  BY <1>1
<1> QED  BY <1>2, PTL DEF Spec, TypingNeverActs
=============================================================================
