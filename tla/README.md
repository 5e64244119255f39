# Verification of lazyrtui

TLA+ models of lazyrtui, the terminal interface for ROS 2, with TLC runs over
small instances and TLAPS proofs for all of them. The models are translated from
`src/src/*.cpp` and `src/include/lazyrtui/*.hpp`; `PROJECT.json` names, for every
definition, the lines it stands for.

## 1. The system

### Threads and what they share

| thread | does | locks it takes |
| --- | --- | --- |
| UI (main) | FTXUI's loop: draws, handles keys, toggles topics, sends goals and calls, refreshes on a key; before and after the loop `start()` and `stop()` | `data_mutex_`, `queue_mutex_`, `active_goals_mutex_`, `mutex_`, the GIL |
| refresh | `refresh_data()` every interval | `refresh_mutex_`, `data_mutex_`, `mutex_` |
| spin | the ROS executor: message, TF and feedback callbacks | `data_mutex_`, the mutex of the TF tree |
| worker | one service call at a time, then its callback | `queue_mutex_`, `data_mutex_`, `active_goals_mutex_`, `mutex_` |

The interface never talks to ROS while it draws (with the exceptions below):
writers change working copies under `data_mutex_` and publish an immutable
snapshot, `Render()` loads snapshots atomically. Calls to services and action
servers go through the one queue of the worker and come back as callbacks.

### Components

| component | state | operations | what is hard | what makes it correct |
| --- | --- | --- | --- | --- |
| **Service worker**, `ros_manager.cpp` | `service_tasks_`, `worker_shutdown_`, `stop_requested_`, `connected_`, context, node, executor | `start`, `stop`, `spin_loop`, `call_service_async`, `execute_service_call` | calls that race with `stop()`, callbacks that call again, deadlines against answers, signals | in order, at most once, on a live node, never after `stop()`, each one settled, `stop()` returns |
| **Action client**, `ros_manager.cpp` | `active_action_goals_`, feedback subscriptions | `send_action_goal_async`, `cancel_action_goal_async`, callbacks of both | two chained calls per goal on one worker; state per action name, not per goal; servers that never answer | reported exactly once and truthfully, nothing left behind, cancels and feedback find their goal |
| **TF tree**, `tf_tree.cpp` | `frames_`: parent and children of each frame | `update_transform`, `clear`, `get_roots`, `snapshot` | links stored twice; cycles made by several updates; depth limit | always a forest, links agree, the copy is complete to its depth |
| **Topic data**, `app.cpp` | lists, labels, subscriptions, messages, snapshot, menus | `refresh_data`, `publish_snapshot`, `toggle_topic_subscription`, message callbacks, `Render()` | two atomic stores per publication, callbacks of subscriptions that are gone, subscriptions shared with the action client | what is shown agrees with itself and with what is subscribed; echoes are the latest messages |
| **Navigation**, `app.cpp` | tab, top bar or content, pane of each tab, dialogs, scroll offsets | the `CatchEvent` handler, `handle_detail_scroll`, the clamps of `Render()` | layers of dialogs and inputs, remembered panes, many events between drawings, int arithmetic | the user gets out of everywhere, typing acts on nothing, drawings go on from the last one |
| **Refresh timer, run() and shutdown**, `app.cpp`, `main.cpp` | `refresh_running_`, `screen_` | `run`, `start_refresh_timer`, `stop_refresh_timer`, `main` | a pointer to a local of `run()` used by other threads, order of destruction | no thread uses what is gone, no circle of waits, quitting completes at once |
| **Introspection**, `ros_manager.cpp` | none of its own | `fill_struct_*`, `read_struct_*`, `get_service_request_json`, `get_action_goal_json` | two walks over type descriptions that must agree; bounds of strings, arrays and numbers | a template makes a request; a request says what the user wrote, or is not sent |
| **CDR decoder**, `cdr_utils.hpp` | read position | `parse_cdr_to_json`, `format_serialized_message` | alignment, counts, byte order, truncation | the text says what was published |
| **Graph queries**, `ros_manager.cpp` | none of its own | `get_*` | none | *not modelled*: inputs of the others |
| **Plugin engine**, `python_plugin_engine.cpp` | plugins, the Python interpreter | load, match, render | none: one thread | *not modelled* |
| **FTXUI converter**, **configuration loader** | none | JSON to widgets; YAML to `Config` | - | *not modelled*: pure translations |

How they meet: Navigation starts toggles, refreshes, calls, goals and cancels;
toggles and the action client share `subscriptions_`; the action client is a
client of the service worker; callbacks of worker and spin thread write what
`Render()` shows; messages, requests and responses pass through the decoder and
the introspection; the lifecycle starts, locks and ends all of them.

## 2. The modules

| module | models | built on |
| --- | --- | --- |
| `Forest` | the abstract forest that the TF tree promises | |
| `TFTree` | `frames_` and its updates | implements `Forest` |
| `TFSnapshot` | the same operations step by step: the walk up the ancestors, the recursive copy for display | implements `TFTree` |
| `ServiceCalls` | what callers of `call_service_async` are promised | |
| `ServiceWorker` | queue, worker, `start`/`stop`, `spin_loop`, signal | implements `ServiceCalls` |
| `ActionGoals` | what the user is promised of a goal and of a cancel | |
| `ActionClient` | goals and cancels, and an external action server | instance of `ServiceWorker`, implements `ActionGoals` |
| `UiData` | data of the Topics tab on three threads | |
| `Navigation` | the event handler and the scroll state of a detail pane | |
| `Lifecycle` | `main`, `run`, the refresh timer, `stop`, and every lock of the four threads | |
| `Introspection` | types, walks through them, what texts are made of | |
| `Wire` | a publisher's serializer, external | extends `Introspection` |
| `CDR` | the decoder, step by step | extends `Introspection` |
| `Echo` | a message from its publisher to the text that is shown | composes `Wire` and `CDR` |
| `Structs` | `fill_struct_*` and `read_struct_*`, step by step | extends `Introspection` |
| `Codec` | echoes, templates, requests and responses as texts | composes `Echo` and `Structs` |
| `*Proofs` | the theorems about the module they extend (`TFSnapshotProofs` has those about `TFTree` too, `CodecProofs` extends `EchoProofs`) | |
| `MC*` | constants for TLC | |

Names follow the code: `ToggleOff` is the branch of `toggle_topic_subscription`
that unsubscribes, `ExecPolls` a turn of the polling loop in
`execute_service_call`, and so on. A step is what the code does between two
points at which another thread can act: a critical section is one action, an
operation with several is several.

**TFTree.** `parent` and `children` are functions over the frames; `Accept` does
the four assignments of an accepted update at once, as it happens under the
mutex; `Refused` says what the walk up the ancestors is to find. Poses and stamps
are displayed only and left out. `TFSnapshot` takes the operations apart: `holder`
says which of them has `mutex_` and how far it is, `WalkGoesOn` is a turn of the
loop of `update_transform`, and `loops` is the stack of the calls of `copy_node`,
each with the children it has yet to visit, in any order. `get_roots` and the
queries of single frames change nothing and are part of the copy or left out.

**ServiceWorker.** The worker's program counter runs through sleeping, taking,
looking for the server, sending, polling, replying and the callback. `tasks`,
`current`, `worker_shutdown` and the rest are the members of the same names.
A call ends answered, failed, refused (its callback runs with an error in the
caller's thread) or dropped (it was queued when `stop()` came). The callback that
is run for a refused call runs inside the step that refuses.

**ActionClient.** A goal is a `send_goal` call whose callback makes a
`get_result` call whose callback reports. Each critical section of those
callbacks (erase the goal, unsubscribe, report) is a step (`cb`), likewise of the
UI thread (`ui`). The server is external: it may accept, reject, end a goal in
any state, answer late or never; responses can be taken only while the call that
asked is there; of the goals a cancel is for it may cancel any. The sleeps of the
polling loops, spurious wake-ups, starts that fail and the signal handler of rclcpp
are in the run of `ServiceWorker` only. The text of a feedback message is a matter of
`Codec`, the lines of the response pane are left out.

**UiData.** `mutex` says which refresh holds `data_mutex_` across steps; whoever
holds it for one step is one action. A refresh is four steps: lock, query, store
the snapshot, store the menus. Nodes, services and actions are copied like
topics and left out. `GoalSent` and `GoalOver` are what the action client does to
the shared subscriptions.

**Navigation.** `Handle(e)` is the handler: who takes the event (`Taker`), then
`ExitDialog`, `HelpDialog`, `Input` or `Hotkey`, in the order of the code. What
it lets pass goes to FTXUI (`Components`), which may move the focus in any way
its containers can: a key goes to the component with the focus, a click takes the
focus to where it is and may press what is there (`Click`), and the wheel turns the
tab names, a menu or a container under it, whatever has the focus (`WheelOver`),
while the user types as well. The scroll states are independent of each other; the
model follows one, any one (`watched`). `shown` and `way` are histories of it: the
line drawn last, and how the pane was scrolled since. Key bindings are arbitrary
functions to characters.

**Lifecycle.** A thread is at a place (`pc`), and its place says which locks it
holds (`Section`) and which it waits for (`Waiting`): `data_mutex_`, the
manager's `mutex_`, `queue_mutex_`, `active_goals_mutex_` and `refresh_mutex_`,
nested as in the code: a toggle takes the manager's under `data_mutex_`, a call
that is refused runs its callback under `queue_mutex_`. Most steps only go along
a path (`Path`); those that change flags, objects or the queue are actions of
their own. `wait_for` is testing, falling asleep, waking and getting the lock
back. `sees` holds the threads that found `screen_` set and are about to post.
The data behind the locks belongs to the other modules, and the wakeups of the
worker to `ServiceWorker`.

**Introspection, Wire, CDR, Echo.** A type is a tree as the typesupport describes it;
a value is a tree of bytes. Both sides walk through a message with a stack of the
arrays and messages they are in (`calls` of the decoder, `puts` of the serializer),
and what they say of it is a stream: something opened, words, something closed.
In `CDR` a step of `parse_cdr_field` is a field that is read or not, an array or a
message that begins, or one that ends; a call that returns false has moved `offset`
all the same, writes null and goes on, except behind the elements that are shown,
where it ends the loop. `Wire` is the library on the other side; its steps are
put into `log`, of which only the last entry matters to what follows. In `Echo`
the decoder begins when the serializer is done, with the type that goes by that name
on this side, which need not be the publisher's.

How a number is spelled is left out, what it says is not: the text of an integer
holds its bytes; that of a float, which the code writes with the six digits of a
stream, holds the bytes of what these digits say (`Rounded`), and `SixDigits` may be
any rounding.

**Structs, Codec.** A text of a form or of a response is the tree it would parse to.
A NaN, an infinity, a control character or what is no UTF-8 makes it `Broken`: it
does not parse. A quote or a backslash in a string, which is written as it is, makes
it `Garbled`: it may not parse, or parse as another string or with other members, and
`ParsedAs` lets it be anything. Both spoil whatever is around them. The recursion of `fill_struct_field` and `read_struct_field` is a
walk: `fields` is the stack of the arrays and messages that are not finished, each
with its type, its value, its text and the number of its parts that are `done`. A
step is one turn of the loop over elements or members: a word is read or filled
(`IsRead`, `IsFilled`), a part is entered (`Into`), or the innermost one is finished
and becomes a part of the next. `past` holds the fields that are finished, each
with its value and its text; it is a history that no step depends on, and lets the
properties speak of every field. Filling ends with a value, is `Refused`, or does
something `Undefined` (it writes behind the end of a bounded sequence). `Codec`
follows one message of a topic, or the forms one after another: template, edit,
request, answer, reply, each walk in steps of its own. Member names are positions.
An integer goes into any field of numbers, in its low bytes; a decimal into a float
only, and a number becomes the float of that width that is next to it (`Nearest`, a
constant). What the constructors of messages make is a constant too, `Default`.

## 3. The runs

| run | instance | shows |
| --- | --- | --- |
| `tf_tree` | 4 frames, depth limit 1 | the store is a forest with agreeing links, the walk for cycles decides as `TFTree` and `Forest` say, the copy is complete down to the limit, every operation ends |
| `service_worker` | 3 calls, 2 stops, 1 poll before the deadline | order, at most once, live node, nothing after `stop()`, refinement of `ServiceCalls`, every call settles, `stop()` returns |
| `action_client` | 2 goals and a cancel on one action, 1 stop | refinement of `ActionGoals`: one report per goal, of what became of it or of a failure, and cancels that ask; nothing left behind, each goal reported unless the manager stops; cancels and feedback are right unless goals overlap |
| `ui_data` | 2 topics, one also of a goal; 3 messages, buffer of 2 | labels, snapshot, menu, subscriptions and echo windows agree |
| `navigation` | 4 tabs, the Topics pane watched, one keymap, two scroll events between clamps | Esc leads out, typing acts on nothing, drawings go on from the last one or from the top |
| `lifecycle` | one call waiting while one is served | no circle of waits, objects outlive their use, the timer wakes at once, quitting completes |
| `codec` | 12 types of messages in both byte orders, 4 messages read as another version of their type, 11 forms with the texts of a user, 5 types of responses; 2 elements shown, counts up to 4 | the decoder stays inside the message, echoes are true, texts that are parsed again parse and say what a response did, templates make requests, requests carry their text, with the exceptions that the properties name |
| `cancel_aim` | as `action_client` | *violation*, section 5 |
| `render_waits`, `end_overflow`, `screen_race`, `echo_shift` | as `ui_data`, `navigation`, `lifecycle`, `codec` | *violations*, section 5 |

**Why these bounds are enough.** Four frames allow a chain, a fork and a
re-parenting that closes a cycle of three. Three calls put one in the worker's
hands, one in the queue and one in a callback or a race with `stop()`; the second
`stop()` is the one of `main`. One poll distinguishes an answer before and after
the deadline. Two goals are the least that share an entry; a third only repeats
what two do. A buffer of two with three messages overflows; two topics tell
mistaken identity. Tabs 0, 1, 3 and 4 have a list, the toggles, an input and
three panes; tabs 2 and 6 behave like 3 and 0, and tabs 5 and 7 have nothing to
focus. Of the panes that scroll, that of Topics has every way to start over and a
notice under which nothing is clamped. The keymap binds what the handler uses
elsewhere: the answer of the exit dialog, Space, the digit of a tab, and nothing.
`MaxInt = 10` makes overflow happen as `INT_MAX` does: End and a scroll down are the
two scrolls between clamps. The threads of `Lifecycle` are those of the program; one call in the queue and
one in the worker's hands let a goal's second call be asked for, accepted and
refused, and a longer queue only repeats them. The messages of `codec` put every
kind of member at aligned and unaligned offsets, with fewer, as many and more
elements than are shown (the code shows 20, the model 2); each type is there for a
case of its own, and the exceptions in the properties were found needed by taking
them out one by one. The four with another version of a type run out of bytes in a
number, in a list and in a string, and read garbage as a count. The forms have every
kind of array, a message in an array and in a message, bounds of strings and arrays,
defaults that a text cannot carry, and no member at all; their texts have fewer, as
many and more elements than fit, numbers of too many bytes, words of the wrong kind
and members that are missing. The theorems of section 4 do not depend on any of these.

**Fairness.** `SpecSteps` of `TFSnapshot` assumes that whoever has the mutex keeps
running. `FairSpec` of `ServiceWorker` assumes weak fairness of the steps of
the worker, of the spin thread and of `stop()` once it has begun: they run in
threads of their own and wait only on condition variables with notification, on
a poll with a deadline, or on a join. No fairness is assumed of the user, of the
ROS services, of signals or of spurious wake-ups. `FairSpec` of `ActionClient`
assumes weak fairness of the worker (the callbacks it runs included) and of the
steps a send or a cancel has begun on the UI thread, and nothing of the action
server. `FairSpec` of `Lifecycle` assumes that the threads keep running and that a
mutex that is released again and again is granted in the end, which is strong
fairness of main, refresh thread and worker: the C++ standard does not promise it,
the mutexes of Linux do in practice, and without it one thread could starve
another at `data_mutex_` in any program of this kind. Strong fairness of `SpinExits`
says that `spin_some`, which is given 100 ms, returns however many messages come.
`CHECK_DEADLOCK` is off where the program ends, where all calls can be made and the
manager stopped, and where a message has been shown: nothing is left to do there.

## 4. The proofs

| theorem | says |
| --- | --- |
| `TFTypeCorrect`, `TFAlwaysAcyclic`, `TFLinksAlwaysAgree` | the TF tree is a forest with agreeing links, for any frames |
| `TFImplementsForest` | every update is one of `Forest` or refused for the right reason |
| `StepsImplementTFTree`, `WalkAlwaysVisitsAncestors`, `SnapshotAlwaysComplete`, `StepsTypeCorrect` | the walk and the recursive copy, step by step, do what `TFTree` says, and the copy is complete, for any frames and depth limit |
| `WorkerTypeCorrect`, `WorkerAnswersAtMostOnce`, `NodeAlwaysOutlivesCalls`, `StopIsFinal` | the worker, for any calls, polls and stops |
| `WorkerKeepsPromise` | the worker implements `ServiceCalls` |
| `ClientKeepsPromise` | the action client implements `ActionGoals` |
| `ActionTypeCorrect`, `GoalsReportedOnce`, `ResultsAlwaysTruthful`, `NothingEverLeftBehind`, `FeedbackAlwaysReachesGoal`, `LoneCancelsAim` | the action client on that worker, for any goals, cancels and actions |
| `UiTypeCorrect`, `LabelsAlwaysAgree`, `PublishedAlwaysCurrent`, `MarksAlwaysMatch`, `EchoesAlwaysMarked`, `EchoAlwaysLatest`, `LeftoverAlwaysOneMessage`, `TogglesAlwaysHitDrawn`, `EchoesEndKnowingly` | the topic data, for any topics, listings, buffer and messages |
| `LifecycleTypeCorrect`, `LocksAlwaysExclude`, `NeverCircularWait`, `ObjectsAlwaysOutliveUse`, `TimerAlwaysWakes` | the threads and locks of the program, for any number of waiting calls |
| `EchoTypeCorrect`, `DecoderReadsInside`, `EchoIsTrue` | the decoder reads inside the message and says what was published, floats to six digits, for any types, values and byte order, unless a fixed array is shifted, a string is wide or no UTF-8 |
| `TextsAlwaysParse`, `TemplatesAlwaysAccepted`, `RequestsAlwaysCarryText`, `CodecEchoes` | the forms, for any types, defaults, responses and texts: what is parsed again parses, and says what a response did, floats to six digits, unless a string of it has a quote or a backslash; templates make requests, requests say what was written; the decoder's theorems hold of `Codec` |
| `NavigationTypeCorrect`, `NeverTwoDialogs`, `EscAlwaysLeadsOut`, `TypingNeverEverActs`, `AlwaysScrollsFromShown` | the keyboard, for any keymap, heights and width of int |

The assumptions are those named in the modules (`UiAssumption`,
`NavigationAssumption`, ...): constants are of their kinds, sentinels are not
members of the sets they stand beside. TLC evaluates them in every run.

The arguments:

- *TF tree.* Acyclicity is stated by ancestor sets, defined as an
  intersection of closed sets, so that no induction over paths is needed: a set
  closed under parents before an accepted update gives one after it, because the
  new parent was not below the child. `LinksAgree` is inductive with the types.
- *TF tree, step by step.* The inductive invariant is `StepsInv`. Of the walk it says
  that the names seen and those still above make up the ancestors of the parent, and
  are disjoint because the store is acyclic (`WalkSound`): the test for names seen
  before never decides, and when nothing is above, everything was seen. Of the copy
  (`CopySound`) it says that the loops go down one path, loop `i` over children of a
  frame of depth `i - 2`; that what is below a copied frame is copied, waits in a loop
  or was cut off; and that the nameless nodes count what was cut off. The depth of a
  frame is a number of ancestors, one more than its parent's (`Depths`). When the last
  loop has ended, a frame that should be there and is not has a parent of that kind,
  and `Acyclic` has no such set: no induction over the tree.
- *Service worker.* `AtMostOnce` is not inductive. `IInv` adds that what is
  queued or in hand is unanswered and nowhere twice, that a call never issued is
  unanswered, and where worker and `stop()` can be relative to each other
  (`PhaseSound`): once `stop()` passed the join, the worker has exited. From the
  last part follow the node and `StopIsFinal`. The refinement needs that a worker
  quits only when the manager closes (`QuitSound`); what becomes of a call is then
  read off the same variables before and after a step (`FateOfSame`,
  `FateSettles`).
- *Action client.* `ActionClientProofs` takes over what is proved of the worker:
  each of its steps is a step of `ServiceWorker` or leaves it alone (`StepIsPStep`).
  On top of that a goal that was sent and is not reported is somewhere: the UI is
  about to hand its call over, one of its two calls is unanswered, or the worker is
  in the callback that will report it (`NoGoalLost`). Two further facts about the
  worker make this close: an unanswered call is in the queue or in hand
  (`Accounted`), and while main is in the UI no call is refused. A report finds the
  goal unreported because both of its calls are over by then (`ReportSound`), and
  finds the final status because a response exists only when the server gave it
  (`ServerSound`). Entries of the two maps belong to unreported goals
  (`EntriesSound`), and without an overlap an action has one such goal (`OneByOne`).
  The refinement adds that a request on its way was issued (`RequestsMade`), so that
  what the server does with it is a step of `ActionGoals`; of the client's own steps
  only a report and the hand-over of a cancel show there, all others stutter
  (`QuietStep`). What a goal is reported as is what the server says of it by
  `ServerSound`. That reports are single and truthful (`GoalsReportedOnce`,
  `ResultsAlwaysTruthful`) follows from the refinement, so the run checks that.
- *Topic data.* `MarksMatchWindows` speaks of two variables stored apart. `IInv`
  adds that the published subscriptions are current at every moment
  (`SubscriptionsShown`: only the UI thread changes them, and not during a
  refresh) and what lies between the two stores (`SnapshotFirst`). That a toggle
  flips one label only (`TogglesAlwaysHitDrawn`) needs listings without repetition,
  which `UiAssumption` states: they are the keys of a map.
- *Navigation.* `OneDialog` and the types are inductive together. `EscLeadsOut`
  is a ranking: help counts 4, a pane on the right 2, the content 1.
  `ScrollsFromShown` compares two drawings with any events between them: `FollowsWay`
  says at each step on which side of the line drawn last the offset is, going by the
  ways it was scrolled, and clamping to the content drawn next, being monotone, keeps it.
- *Decoder.* That it stays inside the buffer (`ReaderOK`) is inductive with what is
  on its stack: every call but the innermost waits for a part of its own, and that
  the next one is of a type. The round trip compares two walks that are not in step,
  since one ends before the other begins. `LogSound` says what the serializer did:
  each entry of the log is made from the one before, and what it put is still there
  at the end (`Leads`), so the decoder meets at each place the bytes that were put
  there. `Decoded` says that, of a message that is read as what it is, the decoder
  stands where the serializer stood at some entry of the log (`Matches`): the same
  stack, the same text, and an offset that differs only at the beginning of a fixed
  array (`Offset`), which the decoder has aligned and the serializer not. A step of
  the one is then the next entry of the other (`ParseFieldMatches`), kind by kind,
  and the only entry with an empty stack is the last. No induction over the depth of
  types is needed: a walk never looks deeper than one part of what it is in, so it is
  enough that parts of types are types (`IntrospectionAssumption`) and parts of values
  are values (`WireAssumption`).
  `CountAssumption` keeps counts within the two bytes of them that the model has.
- *Forms.* What a recursion does to a whole struct cannot be proved by induction over
  its type here, and need not be: as with the decoder, it is enough to say of a walk
  that each finished field is right if its parts, finished before it, are. `ReadWalk`
  says that of a walk that reads: what is finished has the text of its value
  (`FieldRead`), of what is not the first `done` parts are finished (`FrameRead`),
  each array or message on the stack is the next part of the one below it
  (`LinkedRead`), what is spoilt is so for a reason (`Excused`), and shows all the
  way up (`GarbageShows`). `FillWalk` says
  it of a walk that fills: a finished field `Carries` its text, and of an unfinished
  one the parts that are not filled are as they began (`PartBegins`), which is what a
  bounded sequence keeps behind the elements of a list. When the stack is empty, the
  whole struct is among the finished fields, and that is `RequestsCarryText` and the
  second half of `TextsParse`. `TemplatesAccepted` relates two walks: as long as the
  text is the template's own and nothing in it is what a text cannot carry (`Plain`),
  each text on the stack of the filling walk was read by the template's, from a value
  that the constructor made (`FromTemplate`, `FreshWalk`), so that its words are of
  the kind the field wants and its lists as long as the sequences that are not
  resized: no step refuses, and none is undefined. The first half of `TextsParse`
  follows from the proof of the decoder and from what the serializer's log says
  (`SaidParses`): a word that does not parse is said only where the log has an array
  that is cut or a number that is not finite. `CInv` puts these together with the
  invariant of `Echo`. `StructsAssumption` and `CodecAssumption` say that defaults
  and responses are values of their types, that an array begins with the default its
  type declares, and that what users write is text. Of rounding and of the nearest
  floats only their width is assumed (`DigitsAssumption`, `NearestAssumption`): that
  `SixDigits` rounds to six digits is its name, and the theorems hold of any other.
- *Lifecycle.* `NeverCircularWait` needs no invariant, only the tables of places:
  give `queue_mutex_` and `refresh_mutex_` the level 1, `data_mutex_` 2, the other
  two 3; whoever waits for a lock holds only lower ones (`LocksClimb`), so of
  threads in a circle the one that wants the highest lock would wait for one that
  wants a higher one; and who joins holds nothing. That a place stands for holding
  a lock is `LocksAlwaysExclude`: every step into a section comes from a place
  that waits for it (`PathsGuarded`). For the other two `IInv` adds what main's
  place says of the objects and of the threads: the screen lives within `run()`
  (`ScreenSound`), the refresh thread from its start to the join (`RefreshSound`),
  work only while the application is there (`AppSound`), and once the flag is down
  the refresh thread does not fall asleep (`TimerSound`), because the flag is
  changed under `refresh_mutex_`, which the thread holds from the test to the sleep.

Only model-checked is liveness under fairness (`OperationsEnd`, `CallsSettle`,
`StopReturns`, `GoalsReported`, `QuitCompletes`), which the provers do not reach, like
everything that rests on when an action is enabled. Every safety invariant, action
property and refinement of the passing runs is proved. What the recursion over a type
computes is proved of each of its steps; that it comes to an end is not proved, and is
plain from the types being finite trees.

## 5. Where code and documents disagree

- `cancel_aim`: `active_action_goals_` keeps one uuid per action *name*. A second
  goal overwrites it, the first to end erases it; a cancel then carries the zero
  uuid, which asks for every goal to be cancelled, or goes to the wrong one.
- `render_waits`: the panes of Services and Actions lock `data_mutex_` to draw the
  response, which a refresh holds through its graph queries.
- `end_overflow`: End and a scroll down before the next drawing overflow the
  offset; the first line is shown in place of the last.

- `screen_race`: a message callback that found `screen_` set posts to the screen
  after `run()` has returned and destroyed it; the spin thread is joined only in the
  `stop()` that follows. The refresh thread has no such problem
  (`ObjectsOutliveUse`), because `run()` joins it first.
- `echo_shift`: the decoder moves to a multiple of four before every array, also
  before fixed ones, whose elements follow the member before them at their own
  alignment. The array and all that follows is read from the wrong place.

Smaller ones met on the way, which no run singles out:

- A cancel queues behind the `get_result` of the goal it is to cancel, on the one
  worker, and so is sent when the goal is over or after ten seconds.
- Esc in the top bar does not ask to quit while the right pane of the tab is
  remembered; it goes back into the content (app.cpp:1360 against README.md:126).
- Tab reaches the right panes of Services and Actions and does not leave them; the
  quit key acts without a question while the help is shown; mouse motion dismisses
  the exit dialog.
- A comment says that `update_transform` permits loops (tf_tree.cpp:111); it refuses
  them, and the guard of the copy against them never fires (`SnapshotComplete`).
- `stop()` drops queued calls without their callbacks.
- Strings of responses are written without escapes (ros_manager.cpp:822). A result
  with a line break in one does not parse and is reported as failed; one with a quote
  or a backslash may do worse and parse as something else: `a\u0041` as `aA`, and
  `x","status":"y` as two members. Default strings of requests go the same way into
  the form. Feedback with an array of more than 20 elements does not parse and is
  dropped. NaN and infinity are no JSON anywhere.
- Floats are written with the six digits of a stream (cdr_utils.hpp:216, 226;
  ros_manager.cpp:816, 819): what is shown of a stamp, a position or a result, and the
  default that a form begins with, is another double than the one that was there, and
  doubles that agree in six digits look the same. The properties claim no more.
- A garbage count of an array of messages, of another version of the type say, is
  looped over to its end, up to 2^32 times on the spin thread: such an element never
  fails (cdr_utils.hpp:100).
- A string that is no UTF-8 makes `dump()` throw; the message is lost to the log.
- Templates have null for octets and wide strings and nothing for the hidden member
  of an empty message; filling refuses both. An action whose goal is empty cannot be
  sent at all, since its goal is a member of the request.
- Bounded sequences are never resized (ros_manager.cpp:594): shorter lists keep the
  rest of the defaults, longer ones are refused or written behind the end. Numbers
  that do not fit a field wrap.

## 6. Plan

| next | content | composes | properties and theorems |
| --- | --- | --- | --- |
| request forms | selection, refresh of the list and prefilled text of a form | `UiData`, `Codec` | the text that is sent belongs to the service it is sent to |
| `PluginEngine` | GIL, `plugins_mutex_` | `Lifecycle` | no deadlock if another thread rendered |

## 7. Not modelled

- Pixels, wording and layout, with the FTXUI converter, which only translates JSON
  to widgets, and the lines appended to the response panes.
- The Python plugins: the UI thread alone loads and renders them, so that neither the
  GIL nor `plugins_mutex_` is ever contended, and what they return is layout.
- The configuration loader: it reads one file before anything runs; what it yields is
  a constant (`Keymaps`) or a choice (`start_refresh_timer`) of the models.
- The graph queries and the loading of typesupport libraries, whose answers are inputs
  (`Listings`, `Messages`, `Forms`), and the dump of bytes shown without a typesupport.
- Stamps and poses of transforms, which are displayed and never compared.
- Whether the text in a form still belongs to the selected entry after a refresh, and
  which of the two buttons the dead selector of the Actions pane presses.
- FTXUI, rclcpp, Fast CDR and action servers beyond what the code relies on, and
  memory exhaustion.
