----------------------------- MODULE Navigation -----------------------------
(***************************************************************************)
(* The keyboard: the CatchEvent handler around the whole interface         *)
(* (src/app.cpp), which sees every event before the FTXUI components do,   *)
(* and the scroll state of a detail pane, which the handler moves and      *)
(* Render() clamps.  Everything here happens on the UI thread, one event   *)
(* or one drawing at a time; several events may come between two drawings. *)
(*                                                                         *)
(* The panes of the tabs have a scroll state each and share nothing: the   *)
(* model follows one of them, any one.                                     *)
(*                                                                         *)
(* FTXUI is external.  What the handler does not consume may move the      *)
(* focus in any way its containers and menus can.                          *)
(***************************************************************************)
EXTENDS Integers

CONSTANTS
  Tabs,        \* the tabs that are visited, out of 0..7 (a bound)
  Watched,     \* the tabs one of whose detail panes is followed (a bound)
  Characters,  \* the characters that are typed (a bound)
  Keymaps,     \* possible Config.keybindings; "" disables a binding
  Heights,     \* possible heights of the content of a pane, in lines
  Pages,       \* possible heights of the pane itself
  MaxInt,      \* largest int
  MaxScrolls   \* scroll events between two clamps (a bound)

Bindings == {"quit", "help", "switch_focus", "refresh", "echo_topic",
             "call_service", "send_goal"}
Digits == <<"1", "2", "3", "4", "5", "6", "7", "8">>
Wheel == {"wheelup", "wheeldown"}
NavigationKeys == {"escape", "tab", "return", "newline", "sideways", "up", "down",
                   "pageup", "pagedown", "home", "end"}
Events == Characters \cup NavigationKeys \cup Wheel \cup {"mouse", "custom"}
ScrollingTabs == {0, 1, 2, 3, 4, 6}

ASSUME NavigationAssumption ==
  /\ 0 \in Tabs /\ Tabs \subseteq 0..7 /\ Watched \subseteq ScrollingTabs
  /\ Keymaps \subseteq [Bindings -> Characters \cup {""}]
  /\ Characters \cap (NavigationKeys \cup Wheel \cup {"mouse", "custom", ""}) = {}
  /\ Heights \subseteq Nat /\ Pages \subseteq Nat \ {0}
  /\ MaxInt \in Nat /\ 10 <= MaxInt /\ \A h \in Heights \cup Pages : h <= MaxInt
  /\ MaxScrolls \in Nat

VARIABLES
  keys,              \* config_.keybindings
  selected_tab,
  main_vertical_focus,  \* 0: top bar, 1: content of the tab
  pane,              \* node_pane_focus_ ... tf_pane_focus_, per tab
  field,             \* what has the focus inside the right pane of tabs 2, 3
  show_help,
  show_exit_dialog,
  did,               \* what the last event started
  watched,           \* the tab whose detail pane is followed
  offset, content, page,  \* its ScrollState
  echoing,           \* some topic is subscribed, if the pane is that of the Topics
  scrolls,           \* scroll events since the last clamp
  atEnd,             \* End was one of them, and upwards went none since
  shown,             \* history: the offset last drawn, 0 after a restart
  way                \* history: the ways scrolled since

\* No step depends on atEnd, shown and way: they are there for the properties.

focus == <<selected_tab, main_vertical_focus, pane, field>>
dialogs == <<show_help, show_exit_dialog>>
scroll == <<offset, content, page, echoing, scrolls, atEnd, shown, way>>
vars == <<keys, focus, dialogs, did, watched, scroll>>

PaneCount(t) == CASE t = 4 -> 3 [] t \in {5, 7} -> 1 [] OTHER -> 2
Ints == -MaxInt-1 .. MaxInt

TypeOK ==
  /\ keys \in Keymaps
  /\ selected_tab \in Tabs
  /\ main_vertical_focus \in {0, 1}
  /\ pane \in [0..7 -> 0..2] /\ \A t \in 0..7 : pane[t] < PaneCount(t)
  /\ field \in [{2, 3} -> {"input", "button"}]
  /\ show_help \in BOOLEAN /\ show_exit_dialog \in BOOLEAN
  /\ did \in {"nothing", "exit", "refresh", "toggle", "call", "goal", "cancel"}
  /\ watched \in Watched
  /\ offset \in Ints
  /\ content \in 0..MaxInt /\ page \in 1..MaxInt
  /\ echoing \in BOOLEAN
  /\ scrolls \in 0..MaxScrolls
  /\ atEnd \in BOOLEAN
  /\ shown \in 0..MaxInt
  /\ way \subseteq {"up", "down", "wrapped"}

Init ==
  /\ keys \in Keymaps
  /\ selected_tab = 0
  /\ main_vertical_focus = 1
  /\ pane = [t \in 0..7 |-> 0]
  /\ field = [t \in {2, 3} |-> "input"]
  /\ show_help = FALSE /\ show_exit_dialog = FALSE
  /\ did = "nothing"
  /\ watched \in Watched
  /\ offset = 0 /\ content = 1 /\ page = 10
  /\ echoing = FALSE
  /\ scrolls = 0 /\ atEnd = FALSE
  /\ shown = 0 /\ way = {}

-----------------------------------------------------------------------------
is_text_input_focused ==
  /\ main_vertical_focus = 1 /\ selected_tab \in {2, 3}
  /\ pane[selected_tab] = 1 /\ field[selected_tab] = "input"

key_is(binding, e) == keys[binding] # "" /\ e = keys[binding]

\* A pane starts at the top again.
ToTop == offset' = 0 /\ atEnd' = FALSE /\ shown' = 0 /\ way' = {}

\* So does that of tab t, on a new selection or response.
Restart(t) ==
  IF watched = t THEN ToTop /\ UNCHANGED <<content, page, echoing, scrolls>>
  ELSE UNCHANGED scroll

Exit ==
  /\ did' = "exit"
  /\ UNCHANGED <<focus, dialogs, scroll>>

\* The focus goes to f in the pane of the selected tab, w in the main container.
Focus(f, w) ==
  /\ pane' = [pane EXCEPT ![selected_tab] = f]
  /\ main_vertical_focus' = w
  /\ did' = "nothing"
  /\ UNCHANGED <<selected_tab, field, dialogs, scroll>>

Shows(help, exit) ==
  /\ show_help' = help /\ show_exit_dialog' = exit
  /\ did' = "nothing"
  /\ UNCHANGED <<focus, scroll>>

-----------------------------------------------------------------------------
(***************************************************************************)
(* The two dialogs take every event.                                       *)
(***************************************************************************)
ExitDialog(e) ==
  IF e \in {"y", "Y"} THEN Exit ELSE Shows(show_help, FALSE)

\* Mutant of HelpDialog: quitting asks here as well.
HelpDialogAsks(e) ==
  IF key_is("quit", e) THEN Shows(show_help, TRUE)
  ELSE Shows(~(key_is("help", e) \/ e = "escape"), show_exit_dialog)

HelpDialog(e) ==
  IF key_is("quit", e) THEN Exit
  ELSE Shows(~(key_is("help", e) \/ e = "escape"), show_exit_dialog)

\* Mutant of LeaveInput: the pane keeps the focus.
LeaveInputStays == Focus(pane[selected_tab], 1)

LeaveInput == Focus(0, 1)

(***************************************************************************)
(* Esc goes back one level.                                                *)
(***************************************************************************)
Escape ==
  IF pane[selected_tab] # 0 THEN Focus(0, 1)
  ELSE IF main_vertical_focus = 1 THEN Focus(0, 0)
  ELSE Shows(show_help, TRUE)

SelectTab(t) ==
  /\ selected_tab' = t /\ main_vertical_focus' = 1
  /\ did' = "nothing"
  /\ UNCHANGED <<pane, field, dialogs, scroll>>

\* Mutant of NextPane: every tab takes two panes for granted.
NextPaneOfTwo == 1 - pane[selected_tab]

NextPane == (pane[selected_tab] + 1) % PaneCount(selected_tab)

\* Tab leaves the right pane of Services and Actions to the components.
TabMovesFocus ==
  \/ main_vertical_focus = 0
  \/ selected_tab \in {0, 1, 4, 6}
  \/ selected_tab \in {2, 3} /\ pane[selected_tab] = 0

TabKey ==
  IF main_vertical_focus = 0 THEN Focus(pane[selected_tab], 1)
  ELSE Focus(NextPane, 1)

SwitchFocus == Focus(NextPane, main_vertical_focus)

Ignored == did' = "nothing" /\ UNCHANGED <<focus, dialogs, scroll>>

\* What the operations on the selected entry mean here; with no entry selected
\* they return at once.  The focus is their callers'.
Returns == did' = "nothing" /\ UNCHANGED scroll

\* Mutant of toggle_topic_subscription: the pane stays where it was.
ToggleStays ==
  \/ Returns
  \/ /\ did' = "toggle"
     /\ IF watched = 1
        THEN /\ atEnd' = FALSE /\ shown' = 0 /\ way' = {}
             /\ echoing' \in BOOLEAN /\ UNCHANGED <<offset, content, page, scrolls>>
        ELSE UNCHANGED scroll

toggle_topic_subscription ==
  \/ Returns
  \/ /\ did' = "toggle"
     /\ IF watched = 1
        THEN ToTop /\ echoing' \in BOOLEAN /\ UNCHANGED <<content, page, scrolls>>
        ELSE UNCHANGED scroll

call_selected_service == Returns \/ (did' = "call" /\ Restart(2))
send_selected_goal == Returns \/ (did' = "goal" /\ Restart(3))
cancel_selected_goal == Returns \/ (did' = "cancel" /\ UNCHANGED scroll)

-----------------------------------------------------------------------------
(***************************************************************************)
(* handle_detail_scroll.  Int arithmetic: an overflow is undefined in C++; *)
(* the compiled addition wraps.                                            *)
(***************************************************************************)
Wrap(n) == ((n + MaxInt + 1) % (2 * (MaxInt + 1))) - MaxInt - 1

DetailFocused ==
  /\ main_vertical_focus = 1 /\ ~is_text_input_focused
  /\ \/ selected_tab \in 0..3 /\ pane[selected_tab] = 1
     \/ selected_tab = 4 /\ pane[4] = 2
     \/ selected_tab = 6

\* In the panes with inputs and buttons the arrows move between those.
Scrolls(e) ==
  /\ DetailFocused
  /\ \/ e \in {"pageup", "pagedown", "home", "end"} \cup Wheel
     \/ e \in {"up", "down"} /\ selected_tab \notin {2, 3}

\* Where e leads, before it wraps.
Moved(e) ==
  CASE e = "up"        -> offset - 1
    [] e = "pageup"    -> offset - page
    [] e = "wheelup"   -> offset - 3
    [] e = "down"      -> offset + 1
    [] e = "pagedown"  -> offset + page
    [] e = "wheeldown" -> offset + 3
    [] e = "home"      -> 0
    [] e = "end"       -> MaxInt

Upwards == {"up", "pageup", "wheelup", "home"}

DetailScroll(e) ==
  /\ did' = "nothing"
  /\ UNCHANGED <<focus, dialogs>>
  /\ IF watched = selected_tab
     THEN /\ scrolls < MaxScrolls /\ scrolls' = scrolls + 1
          /\ offset' = Wrap(Moved(e))
          /\ atEnd' = (e = "end" \/ (atEnd /\ e \in {"down", "pagedown", "wheeldown"}))
          /\ way' = way \cup {IF Moved(e) \notin Ints THEN "wrapped"
                              ELSE IF e \in Upwards THEN "up" ELSE "down"}
          /\ UNCHANGED <<content, page, echoing, shown>>
     ELSE UNCHANGED scroll

-----------------------------------------------------------------------------
(***************************************************************************)
(* The components of FTXUI, for an event the handler lets pass.  A custom  *)
(* event means nothing to them.                                            *)
(***************************************************************************)
Focusable(t) == t \in 0..4     \* the other tabs have no component with a focus

\* The button that has the focus, or the Enter of an input, runs its callback.
\* The Actions pane keeps its button index in a local that has gone out of scope
\* (app.cpp:801): either button may answer.
Press ==
  /\ main_vertical_focus = 1
  /\ \/ selected_tab = 2 /\ pane[2] = 1 /\ call_selected_service
     \/ selected_tab = 3 /\ pane[3] = 1 /\ send_selected_goal
     \/ selected_tab = 3 /\ pane[3] = 1 /\ field[3] = "button" /\ cancel_selected_goal
  /\ UNCHANGED <<focus, dialogs>>

\* A menu selects another entry, and its on_change restarts the detail pane;
\* that of the packages (pane 0 of tab 4) restarts none.
MenuPane(t) == IF t = 4 THEN 1 ELSE 0

MenuMoves ==
  /\ main_vertical_focus = 1 /\ Focusable(selected_tab)
  /\ pane[selected_tab] = MenuPane(selected_tab)
  /\ did' = "nothing"
  /\ Restart(selected_tab)
  /\ UNCHANGED <<focus, dialogs>>

FocusMoves ==
  /\ did' = "nothing"
  /\ UNCHANGED <<dialogs, scroll>>
  /\ \/ /\ main_vertical_focus = 0
        /\ \/ selected_tab' \in Tabs /\ UNCHANGED <<main_vertical_focus, pane, field>>
           \/ /\ Focusable(selected_tab) /\ main_vertical_focus' = 1
              /\ UNCHANGED <<selected_tab, pane, field>>
     \/ /\ main_vertical_focus = 1
        /\ \/ main_vertical_focus' = 0 /\ UNCHANGED <<selected_tab, pane, field>>
           \/ /\ Focusable(selected_tab)
              /\ \E p \in 0..PaneCount(selected_tab)-1 :
                   pane' = [pane EXCEPT ![selected_tab] = p]
              /\ UNCHANGED <<selected_tab, main_vertical_focus, field>>
           \/ /\ selected_tab \in {2, 3} /\ pane[selected_tab] = 1
              /\ \E f \in {"input", "button"} : field' = [field EXCEPT ![selected_tab] = f]
              /\ UNCHANGED <<selected_tab, main_vertical_focus, pane>>

\* The wheel needs no focus: over the tab names or a menu it selects another
\* entry, over a vertical container it moves that one's focus.
WheelOver ==
  /\ did' = "nothing"
  /\ UNCHANGED <<pane, dialogs>>
  /\ \/ selected_tab' \in Tabs /\ UNCHANGED <<main_vertical_focus, field, scroll>>
     \/ /\ Focusable(selected_tab) /\ Restart(selected_tab)
        /\ UNCHANGED <<selected_tab, main_vertical_focus, field>>
     \/ /\ Focusable(selected_tab) /\ main_vertical_focus' \in {0, 1}
        /\ UNCHANGED <<selected_tab, field, scroll>>
     \/ /\ selected_tab \in {2, 3}
        /\ \E f \in {"input", "button"} : field' = [field EXCEPT ![selected_tab] = f]
        /\ UNCHANGED <<selected_tab, main_vertical_focus, scroll>>

\* A click takes the focus to where it is: a tab name, ...
ClickTab ==
  /\ did' = "nothing"
  /\ selected_tab' \in Tabs /\ main_vertical_focus' = 0
  /\ UNCHANGED <<pane, field, dialogs, scroll>>

\* ... a pane p of the tab, an entry of whose menu it may select, ...
ClickPane(p) ==
  /\ Focusable(selected_tab) /\ main_vertical_focus' = 1
  /\ pane' = [pane EXCEPT ![selected_tab] = p]
  /\ did' = "nothing"
  /\ UNCHANGED scroll \/ (p = MenuPane(selected_tab) /\ Restart(selected_tab))
  /\ UNCHANGED <<selected_tab, field, dialogs>>

\* ... or an input or a button of the right pane, which it presses.
ClickField(f) ==
  /\ selected_tab \in {2, 3} /\ main_vertical_focus' = 1
  /\ pane' = [pane EXCEPT ![selected_tab] = 1]
  /\ field' = [field EXCEPT ![selected_tab] = f]
  /\ \/ Returns
     \/ f = "button" /\ selected_tab = 2 /\ call_selected_service
     \/ f = "button" /\ selected_tab = 3 /\ (send_selected_goal \/ cancel_selected_goal)
  /\ UNCHANGED <<selected_tab, dialogs>>

Click ==
  \/ ClickTab
  \/ \E p \in 0..PaneCount(selected_tab)-1 : ClickPane(p)
  \/ \E f \in {"input", "button"} : ClickField(f)

\* What the component with the focus makes of a key.  A character types into an
\* input.
KeyInComponents(e) ==
  \/ e = "return" /\ Press
  \/ e = " " /\ ~is_text_input_focused /\ Press
  \/ ~(e \in Characters /\ is_text_input_focused) /\ FocusMoves
  \/ ~is_text_input_focused /\ MenuMoves

Components(e) ==
  \/ Ignored
  \/ e \in NavigationKeys \cup Characters /\ KeyInComponents(e)
  \/ e \in Wheel /\ WheelOver
  \/ e = "mouse" /\ Click

-----------------------------------------------------------------------------
(***************************************************************************)
(* The handler: the first case that applies takes the event.               *)
(***************************************************************************)
\* Mutant of Taker: inputs see the events only after the hotkeys.
TakerHotkeysFirst(e) ==
  IF show_exit_dialog THEN "exit dialog"
  ELSE IF show_help THEN "help dialog"
  ELSE IF is_text_input_focused /\ ~\E b \in Bindings : key_is(b, e) THEN "input"
  ELSE "handler"

\* Who takes an event.
Taker(e) ==
  IF show_exit_dialog THEN "exit dialog"
  ELSE IF show_help THEN "help dialog"
  ELSE IF is_text_input_focused THEN "input"
  ELSE "handler"

\* The newline goes into the text, which no property is about.
Input(e) ==
  IF e = "escape" THEN LeaveInput
  ELSE IF e = "newline" THEN Ignored
  ELSE Components(e)

Refreshes == did' = "refresh" /\ UNCHANGED <<focus, dialogs, scroll>>

\* The first case that applies.
Hotkey(e) ==
  IF key_is("quit", e) THEN Shows(show_help, TRUE)
  ELSE IF key_is("help", e) THEN Shows(~show_help, show_exit_dialog)
  ELSE IF e = "escape" THEN Escape
  ELSE IF Scrolls(e) THEN DetailScroll(e)
  ELSE IF \E t \in Tabs : e = Digits[t + 1]
       THEN \E t \in Tabs : e = Digits[t + 1] /\ SelectTab(t)
  ELSE IF e = "tab" /\ TabMovesFocus THEN TabKey
  ELSE IF key_is("switch_focus", e) THEN SwitchFocus
  ELSE IF key_is("refresh", e) THEN Refreshes
  ELSE IF selected_tab = 1 /\ (key_is("echo_topic", e) \/ e \in {" ", "return"})
       THEN toggle_topic_subscription /\ UNCHANGED <<focus, dialogs>>
  ELSE IF selected_tab = 2 /\ key_is("call_service", e)
       THEN call_selected_service /\ UNCHANGED <<focus, dialogs>>
  ELSE IF selected_tab = 3 /\ key_is("send_goal", e)
       THEN send_selected_goal /\ UNCHANGED <<focus, dialogs>>
  ELSE Components(e)

Handle(e) ==
  \/ e = "custom" /\ Components(e)
  \/ e # "custom" /\ Taker(e) = "exit dialog" /\ ExitDialog(e)
  \/ e # "custom" /\ Taker(e) = "help dialog" /\ HelpDialog(e)
  \/ e # "custom" /\ Taker(e) = "input" /\ Input(e)
  \/ e # "custom" /\ Taker(e) = "handler" /\ Hotkey(e)

-----------------------------------------------------------------------------
(***************************************************************************)
(* Render() draws the selected tab and clamps the offset of its pane; the  *)
(* layout then measures the pane.  Without a subscription the Topics pane  *)
(* shows a notice and leaves its offset alone.                             *)
(***************************************************************************)
Least(a, b) == IF a < b THEN a ELSE b
Greatest(a, b) == IF a > b THEN a ELSE b
LastLine(h) == Greatest(0, h - 1)

Clamped(n, h) == Greatest(0, Least(n, LastLine(h)))

Clamps == watched = selected_tab /\ (watched = 1 => echoing)

Draw ==
  /\ did' = "nothing"
  /\ UNCHANGED <<focus, dialogs>>
  /\ \/ /\ Clamps
        /\ content' \in Heights /\ page' \in Pages
        /\ offset' = Clamped(offset, content')
        /\ shown' = offset' /\ way' = {}
        /\ scrolls' = 0 /\ atEnd' = FALSE
        /\ UNCHANGED echoing
     \/ ~Clamps /\ UNCHANGED scroll

Next ==
  /\ UNCHANGED <<keys, watched>>
  /\ \/ \E e \in Events : Handle(e)
     \/ Draw

Spec == Init /\ [][Next]_vars

-----------------------------------------------------------------------------
(***************************************************************************)
(* Properties.                                                             *)
(***************************************************************************)

(* The two dialogs never show at the same time: the one that takes the     *)
(* events is the one that is drawn (app.cpp:1224-1283, 1302-1326).         *)
OneDialog == ~(show_help /\ show_exit_dialog)

(* How far the user is from the exit dialog.                               *)
Depth ==
  (IF show_help THEN 4 ELSE 0)
    + (IF pane[selected_tab] # 0 THEN 2 ELSE 0) + main_vertical_focus

(* Every Esc outside the exit dialog leads closer to it or opens it, from  *)
(* any tab, pane, input or the help, whatever keys are configured: the     *)
(* user is never caught (app.cpp:1329-1335, 1360-1401).                    *)
EscLeadsOut ==
  [][Handle("escape") /\ ~show_exit_dialog => Depth' < Depth \/ show_exit_dialog']_vars

(* What is typed into an input is typed: no key but the Return that        *)
(* submits starts anything, opens a dialog or leaves the tab, whatever     *)
(* characters the bindings use (app.cpp:1326-1349).  The mouse and its     *)
(* wheel are no keys: they may leave the tab.                              *)
TypingNeverActs ==
  [][is_text_input_focused /\ dialogs = <<FALSE, FALSE>>
       /\ (\E e \in Events \ ({"mouse"} \cup Wheel) : Handle(e)) =>
     /\ dialogs' = dialogs /\ selected_tab' = selected_tab
     /\ did' \in {"nothing", "call", "goal"}]_vars

(* What a pane draws goes on from what it drew last: scrolled only         *)
(* downwards since, nothing above that shows, scrolled only upwards,       *)
(* nothing below, and with no scroll the same line is the first, all       *)
(* within the new content; after a new selection, a response or a toggle   *)
(* it goes on from the top.  Nothing but the scrolling of the pane itself  *)
(* moves it, not even what was scrolled under the notice of the Topics     *)
(* pane, which clamps nothing.  A sum that does not fit an int is the      *)
(* exception (app.cpp:41-45, 210, 371, 579, 1126-1150).                    *)
ScrollsFromShown ==
  [][Draw /\ Clamps =>
     LET first == Clamped(shown, content') IN
     /\ way = {} => offset' = first
     /\ way = {"down"} => first <= offset'
     /\ way = {"up"} => offset' <= first]_vars

(* End is to show the last line (app.cpp:1141); scrolling down before the  *)
(* drawing adds to INT_MAX.                                                *)
EndShowsLast == [][Draw /\ Clamps /\ atEnd => offset' = LastLine(content')]_vars
=============================================================================
