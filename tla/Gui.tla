--------------------------------- MODULE Gui ---------------------------------
(***************************************************************************)
(* The library gui.cpp after GuiInit: LVGL's two threads, and clients that *)
(* make, change and remove widgets from their own threads, clear the       *)
(* screen, draw the four rectangles of the LCD test, and end the two       *)
(* threads with GuiCleanUp.                                                *)
(*                                                                         *)
(* A call locks lvgl_lock, works and unlocks, which is one step; what may  *)
(* happen between its start and its lock, and between the sections of      *)
(* DrawQuadGridDisplay, is all there.  The pointer to a new widget goes to *)
(* any clients, its maker or not: core.cpp keeps them in globals, and one  *)
(* thread makes the label that another changes.  A client forgets what it  *)
(* has itself removed or cleared, and cannot know what others do.  LVGL's  *)
(* use of a widget that is gone is undefined; the model ends there.        *)
(* Widgets' addresses are not reused.                                      *)
(*                                                                         *)
(* The two threads are cancelled where POSIX says: asleep in usleep, and   *)
(* in the calls of lv_task_handler that wait, such as the read of the      *)
(* touch driver or the system() of a button's callback.  To wait for a     *)
(* mutex is no such place.                                                 *)
(***************************************************************************)
EXTENDS Integers, Sequences

CONSTANTS Client,    \* threads that call the library
          Calls,     \* the calls they make
          Widget,    \* bound: the widgets there can ever be
          Nobody

AllCalls == {"Add", "Change", "Remove", "Clear", "Quad", "CleanUp"}
Lvgl     == {"task", "tick"}

ASSUME GuiAssumption == /\ Calls \subseteq AllCalls
                        /\ Nobody \notin Client \cup Lvgl \cup Widget
                        /\ Client \cap Lvgl = {}

VARIABLES lvgl_lock,       \* its owner
          task, tick,      \* places of the two threads
          pending,         \* threads with a cancellation to act upon
          caught,          \* history: where the task was when it was cancelled
          made, live,      \* widgets made so far, those that exist
          own,             \* the widgets each client may pass pointers to
          pc, call, arg,   \* each client's place, its call and its widget
          rectangles,      \* in the one static buffer of the canvases
          corrupt,         \* a widget was used that is gone
          robbed,          \* history: clients whose widgets others deleted
          spoilt           \* history: clients whose drawing others disturbed

lvglVars   == <<lvgl_lock, task, tick, pending, caught>>
widgetVars == <<made, live, own>>
callVars   == <<pc, call, arg>>
drawVars   == <<rectangles, corrupt, robbed, spoilt>>
vars == <<lvglVars, widgetVars, callVars, drawVars>>

Init == /\ lvgl_lock = Nobody
        /\ task = "lock"
        /\ tick = "sleep"
        /\ pending = {}
        /\ caught = "nowhere"
        /\ made = {} /\ live = {}
        /\ own = [c \in Client |-> {}]
        /\ pc = [c \in Client |-> "idle"]
        /\ call = [c \in Client |-> "none"]
        /\ arg = [c \in Client |-> Nobody]
        /\ rectangles = {}
        /\ corrupt = FALSE
        /\ robbed = {}
        /\ spoilt = {}

Goes(c, from, to) == pc[c] = from /\ pc' = [pc EXCEPT ![c] = to]
Free == lvgl_lock = Nobody /\ ~corrupt

-----------------------------------------------------------------------------
\* A client calls, with a pointer it has where the call takes one: the GuiObj
\* is a copy, made before the lock is awaited.
Enter(c) ==
  /\ ~corrupt
  /\ Goes(c, "idle", "lock")
  /\ \E f \in Calls, w \in own[c] \cup {Nobody} :
        /\ (w # Nobody) = (f \in {"Change", "Remove"})
        /\ call' = [call EXCEPT ![c] = f]
        /\ arg' = [arg EXCEPT ![c] = w]
  /\ UNCHANGED <<lvglVars, widgetVars, drawVars>>

Section(c, f) == Free /\ call[c] = f /\ Goes(c, "lock", "idle")
Returns(c)    == call' = [call EXCEPT ![c] = "none"] /\ arg' = [arg EXCEPT ![c] = Nobody]

\* Widgets that are new, on the active screen.
Makes(new) == new \cap made = {} /\ made' = made \cup new /\ live' = live \cup new

\* The pointer to w goes to any clients.
Shares(w) == \E users \in SUBSET Client :
               own' = [d \in Client |-> own[d] \cup (IF d \in users THEN {w} ELSE {})]

\* AddButton, AddTouchButton, AddLabel, AddCountdownLabel, AddTable: a widget
\* whose pointer is returned.
AddWidget(c) ==
  /\ Section(c, "Add")
  /\ \E w \in Widget : Makes({w}) /\ Shares(w)
  /\ Returns(c)
  /\ UNCHANGED <<lvglVars, drawVars>>

\* The title, and a line under it that nobody has a pointer to.
AddTitle(c) ==
  /\ Section(c, "Add")
  /\ \E w, line \in Widget : w # line /\ Makes({w, line}) /\ Shares(w)
  /\ Returns(c)
  /\ UNCHANGED <<lvglVars, drawVars>>

AddDirectionLabel(c) ==
  /\ Section(c, "Add")
  /\ \E w \in Widget : Makes({w})
  /\ Returns(c)
  /\ UNCHANGED <<lvglVars, own, drawVars>>

Uses(w) == corrupt' = (w \notin live)

\* The sections of DrawQuadGridDisplay after the first: place and next place.
QuadStage == <<"RED", "GREEN", "BLUE", "YELLOW", "shown">>
Drawing(c) == \E i \in DOMAIN QuadStage : pc[c] = QuadStage[i]
Rectangle  == {QuadStage[i] : i \in 1 .. 4}

\* What c may still use, and what c takes from the others with the widgets.
Has(c) == own[c] \cup (IF Drawing(c) THEN {arg[c]} ELSE {})
Robs(c, widgets) ==
  robbed' = robbed \cup {d \in Client \ {c} : Has(d) \cap widgets # {}}

\* ChangeLabel and SetGuiObjVisibility.
Change(c) ==
  /\ Section(c, "Change")
  /\ Uses(arg[c])
  /\ Returns(c)
  /\ UNCHANGED <<lvglVars, widgetVars, rectangles, robbed, spoilt>>

\* Mutant: the screen is cleaned instead of the widget deleted.
DeletedAll(w) == live

Deleted(w) == {w}

\* RemoveGuiObj; its copy of the GuiObj keeps the pointer, the client drops its.
Remove(c) ==
  /\ Section(c, "Remove")
  /\ Uses(arg[c])
  /\ live' = live \ Deleted(arg[c])
  /\ own' = [own EXCEPT ![c] = @ \ {arg[c]}]
  /\ Robs(c, {arg[c]})
  /\ Returns(c)
  /\ UNCHANGED <<lvglVars, made, rectangles, spoilt>>

-----------------------------------------------------------------------------
\* The canvas is made and its buffer, shared by all canvases, filled.
QuadBegin(c) ==
  /\ Free
  /\ call[c] = "Quad"
  /\ Goes(c, "lock", QuadStage[1])
  /\ \E w \in Widget : Makes({w}) /\ arg' = [arg EXCEPT ![c] = w]
  /\ rectangles' = {}
  /\ spoilt' = (spoilt \ {c}) \cup {d \in Client : d # c /\ Drawing(d)}
  /\ UNCHANGED <<lvglVars, own, call, corrupt, robbed>>

\* Mutant: the third rectangle lies where the second does.
RectangleCopied(stage) == IF stage = "BLUE" THEN "GREEN" ELSE stage

RectangleOf(stage) == stage

\* A rectangle with its text; then the lock is given up and the client sleeps.
QuadDraws(c) ==
  /\ Free
  /\ \E i \in 1 .. 4 : /\ Goes(c, QuadStage[i], QuadStage[i + 1])
                       /\ rectangles' = rectangles \cup {RectangleOf(QuadStage[i])}
  /\ Uses(arg[c])
  /\ UNCHANGED <<lvglVars, widgetVars, call, arg, robbed, spoilt>>

\* The canvas is hidden and deleted.
QuadEnds(c) ==
  /\ Free
  /\ Goes(c, "shown", "idle")
  /\ Uses(arg[c])
  /\ live' = live \ {arg[c]}
  /\ Returns(c)
  /\ UNCHANGED <<lvglVars, made, own, rectangles, robbed, spoilt>>

\* ClearScreen deletes every child of the screen.
Clear(c) ==
  /\ Section(c, "Clear")
  /\ live' = {}
  /\ own' = [own EXCEPT ![c] = {}]
  /\ Robs(c, live)
  /\ spoilt' = spoilt \cup {d \in Client : Drawing(d)}
  /\ Returns(c)
  /\ UNCHANGED <<lvglVars, made, rectangles, corrupt>>

-----------------------------------------------------------------------------
\* Mutant: the threads are cancelled without lvgl_lock.
FreeForCleanUpOrNot == ~corrupt

FreeForCleanUp == Free

\* GuiCleanUp.
CleanUp(c) ==
  /\ FreeForCleanUp
  /\ call[c] = "CleanUp"
  /\ Goes(c, "lock", "idle")
  /\ pending' = pending \cup {t \in Lvgl : (IF t = "task" THEN task ELSE tick) # "gone"}
  /\ caught' = IF caught = "nowhere" THEN task ELSE caught
  /\ Returns(c)
  /\ UNCHANGED <<lvgl_lock, task, tick, widgetVars, drawVars>>

TaskGoes(from, to) == task = from /\ task' = to
TickGoes(from, to) == tick = from /\ tick' = to

\* RunTaskThread: lv_task_handler, locked, and usleep.
TaskEnters ==
  /\ Free
  /\ TaskGoes("lock", "handler")
  /\ lvgl_lock' = "task"
  /\ UNCHANGED <<tick, pending, caught, widgetVars, callVars, drawVars>>

\* Mutant: a button's callback calls ChangeLabel.
CallbacksReturnNot == lvgl_lock = Nobody

CallbacksReturn == TRUE

\* The callbacks that run in the handler take no lvgl_lock.
TaskLeaves ==
  /\ TaskGoes("handler", "sleep")
  /\ CallbacksReturn
  /\ lvgl_lock' = Nobody
  /\ UNCHANGED <<tick, pending, caught, widgetVars, callVars, drawVars>>

TaskWakes ==
  /\ ~corrupt
  /\ TaskGoes("sleep", "lock")
  /\ "task" \notin pending
  /\ UNCHANGED <<lvgl_lock, tick, pending, caught, widgetVars, callVars, drawVars>>

\* A cancelled thread unlocks nothing.
TaskEnds ==
  /\ "task" \in pending
  /\ TaskGoes("sleep", "gone") \/ TaskGoes("handler", "gone")
  /\ pending' = pending \ {"task"}
  /\ UNCHANGED <<lvgl_lock, tick, caught, widgetVars, callVars, drawVars>>

\* RunTickThread: lv_tick_inc between lock and unlock.
TickIncs ==
  /\ Free
  /\ TickGoes("lock", "sleep")
  /\ UNCHANGED <<lvgl_lock, task, pending, caught, widgetVars, callVars, drawVars>>

TickWakes ==
  /\ ~corrupt
  /\ TickGoes("sleep", "lock")
  /\ "tick" \notin pending
  /\ UNCHANGED <<lvgl_lock, task, pending, caught, widgetVars, callVars, drawVars>>

TickEnds ==
  /\ "tick" \in pending
  /\ TickGoes("sleep", "gone")
  /\ pending' = pending \ {"tick"}
  /\ UNCHANGED <<lvgl_lock, task, caught, widgetVars, callVars, drawVars>>

-----------------------------------------------------------------------------
CallStep(c) == \/ AddWidget(c) \/ AddTitle(c) \/ AddDirectionLabel(c)
               \/ Change(c) \/ Remove(c) \/ Clear(c) \/ CleanUp(c)
               \/ QuadBegin(c) \/ QuadDraws(c) \/ QuadEnds(c)
TaskStep == TaskEnters \/ TaskLeaves \/ TaskWakes \/ TaskEnds
TickStep == TickIncs \/ TickWakes \/ TickEnds

Next == \/ \E c \in Client : Enter(c) \/ CallStep(c)
        \/ TaskStep \/ TickStep

\* Threads are scheduled, and none is overtaken for ever at lvgl_lock.
Fairness == /\ SF_vars(TaskStep) /\ SF_vars(TickStep)
            /\ \A c \in Client : SF_vars(CallStep(c))

Spec     == Init /\ [][Next]_vars
FairSpec == Spec /\ Fairness

-----------------------------------------------------------------------------
GuiTypeOK ==
  /\ lvgl_lock \in {Nobody, "task"}
  /\ task \in {"lock", "handler", "sleep", "gone"}
  /\ tick \in {"lock", "sleep", "gone"}
  /\ pending \subseteq Lvgl
  /\ caught \in {"nowhere", "lock", "sleep", "gone"}
  /\ live \subseteq made /\ made \subseteq Widget
  /\ own \in [Client -> SUBSET made]
  /\ pc \in [Client -> {"idle", "lock"} \cup {QuadStage[i] : i \in DOMAIN QuadStage}]
  /\ call \in [Client -> Calls \cup {"none"}]
  /\ arg \in [Client -> Widget \cup {Nobody}]
  /\ rectangles \subseteq Rectangle
  /\ corrupt \in BOOLEAN
  /\ robbed \subseteq Client /\ spoilt \subseteq Client

\* GuiCleanUp cancels while it holds lvgl_lock (gui.cpp:101-104), so the lock is
\* lost with the task only if the task was already waiting for it, and went into
\* the handler with the cancellation pending; the tick thread never takes it along.
LockLostToWaiter == lvgl_lock # Nobody /\ task = "gone" => caught = "lock"

\* What a client may still use is there, its canvas while a drawing of it sleeps
\* included (gui.cpp:314), and is there when a call of it has waited for
\* lvgl_lock, unless another client meanwhile cleared the screen (gui.cpp:274) or
\* removed a widget they share (gui.cpp:723): no call takes more than it was
\* asked to, and so no widget is used after its end by those left alone.
UnrobbedIsSafe == /\ \A c \in Client \ robbed : Has(c) \subseteq live
                  /\ corrupt => robbed # {}

\* The LCD test shows all four rectangles unless another client cleared the
\* screen or drew its own meanwhile: no refresh, no change, no removal and no
\* clean-up disturbs it (gui.cpp:284-376).
UnspoiltIsDrawn == \A c \in Client :
  pc[c] = "shown" /\ c \notin spoilt => rectangles = Rectangle /\ arg[c] \in live

\* Every call returns, though the callbacks run with lvgl_lock held and a call of
\* theirs that locks would wait for itself (core.cpp:80-112, gui.cpp:116-118), and
\* though GuiCleanUp cancels the task: only a task that takes the lock along, or a
\* widget that is gone, stops a call; one that needs a widget too many waits.
CallsReturn == \A c \in Client :
  pc[c] # "idle" ~> \/ pc[c] = "idle"
                    \/ corrupt
                    \/ lvgl_lock # Nobody /\ task = "gone"
                    \/ call[c] \in {"Add", "Quad"} /\ made = Widget
=============================================================================
