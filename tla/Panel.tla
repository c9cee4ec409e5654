------------------------------- MODULE Panel -------------------------------
(***************************************************************************)
(* The screen of core.cpp and gui.cpp: main builds the screen and waits,   *)
(* main_menu adds the rows and then starts one monitor per row, a monitor  *)
(* writes its row's label over and over, the LVGL task thread redraws and  *)
(* runs the button callbacks, the tick thread advances LVGL's clock.  All  *)
(* of them call LVGL under lvgl_lock.                                      *)
(*                                                                         *)
(* A label holds a pointer to its text, not a copy (lv_label_set_text_-    *)
(* static): to the text of the row's global object, or to a string local   *)
(* to one iteration of the monitor's loop.                                 *)
(***************************************************************************)
EXTENDS Integers, Sequences

CONSTANTS RowOrder,     \* rows in the order main_menu adds them
          Brightness,   \* the row of brightness_value, the last of them
          Throws,       \* rows whose monitor may fail to format a reading
          MaxChange     \* bound: how far the buttons raise brightness above 60

Rows     == {RowOrder[i] : i \in DOMAIN RowOrder}
Readings == Rows \ {Brightness}

ASSUME PanelAssumption == /\ RowOrder \in Seq(Rows)
                          /\ Len(RowOrder) > 0
                          /\ Brightness = RowOrder[Len(RowOrder)]
                          /\ Throws \subseteq Readings
                          /\ MaxChange \in Nat

VARIABLES process,         \* "up", "exited" from main, or "crashed"
          lvgl_lock,       \* its owner
          main, menu,      \* places of the two threads
          nextRow,         \* index in RowOrder of the row main_menu is at
          task,            \* "in" or "out" of lv_task_handler
          due,             \* a tick has passed since the last refresh
          monitor,         \* each monitor's place
          label,           \* rows whose label widget exists
          obj,             \* rows whose GuiObj.obj points at it
          text,            \* what each label's text pointer points to
          alive,           \* rows whose monitor's local string exists
          dirty,           \* rows to redraw
          brightness,      \* the global
          brightness_text  \* brightness_value.text as a number, 0 when empty

threadVars == <<main, menu, nextRow, task>>
labelVars  == <<label, obj, text, alive, dirty>>
lightVars  == <<brightness, brightness_text>>
vars == <<process, lvgl_lock, threadVars, due, monitor, labelVars, lightVars>>

Thread == {"nobody", "main", "menu", "task"} \cup Rows

Init == /\ process = "up"
        /\ lvgl_lock = "nobody"
        /\ main = "screen"        \* GuiInit has started the LVGL threads
        /\ menu = "none"
        /\ nextRow = 1
        /\ task = "out"
        /\ due = FALSE
        /\ monitor = [r \in Rows |-> "none"]
        /\ label = {}
        /\ obj = {}
        /\ text = [r \in Rows |-> "none"]
        /\ alive = {}
        /\ dirty = {}
        /\ brightness = 60
        /\ brightness_text = 0

Up == process = "up"

Lock(thread) == Up /\ lvgl_lock = "nobody" /\ lvgl_lock' = thread

\* Mutant: the unlock at the end of a locked section is forgotten.
UnlockNot == lvgl_lock' = lvgl_lock

Unlock == lvgl_lock' = "nobody"

MainGoes(from, to)       == main = from /\ main' = to
MenuGoes(from, to)       == menu = from /\ menu' = to
MonitorGoes(r, from, to) == monitor[r] = from /\ monitor' = [monitor EXCEPT ![r] = to]

-----------------------------------------------------------------------------
\* main, after each of CreateScreen, DeclareStyles and the two AddButtons.
MainStage == <<"screen", "styles", "decrease", "increase", "create">>

\* One locked section of main: lock, build, unlock.
MainBuilds ==
  /\ Up
  /\ lvgl_lock = "nobody"
  /\ \E i \in 1 .. 4 : MainGoes(MainStage[i], MainStage[i + 1])
  /\ UNCHANGED <<process, lvgl_lock, menu, nextRow, task, due, monitor, labelVars,
                 lightVars>>

\* pthread_create(main_menu), then pthread_cond_wait on start_cond1.
MainWaits ==
  /\ Up
  /\ MainGoes("create", "waiting")
  /\ menu' = "title"
  /\ UNCHANGED <<process, lvgl_lock, nextRow, task, due, monitor, labelVars,
                 lightVars>>

\* Nobody signals start_cond1; the wait may still return.
MainSpuriousWakeup ==
  /\ Up
  /\ MainGoes("waiting", "joining")
  /\ UNCHANGED <<process, lvgl_lock, menu, nextRow, task, due, monitor, labelVars,
                 lightVars>>

\* Mutant: main does not join the menu thread.
MenuJoinedNot == TRUE

MenuJoined == menu = "done"

\* main returns, and the process with it.
MainReturns ==
  /\ Up
  /\ MainGoes("joining", "returned")
  /\ MenuJoined
  /\ process' = "exited"
  /\ UNCHANGED <<lvgl_lock, menu, nextRow, task, due, monitor, labelVars, lightVars>>

-----------------------------------------------------------------------------
\* AddTitle; main_menu reads the version string of main's frame after it.
MenuTitle ==
  /\ Up
  /\ lvgl_lock = "nobody"
  /\ MenuGoes("title", "version")
  /\ UNCHANGED <<process, lvgl_lock, main, nextRow, task, due, monitor, labelVars,
                 lightVars>>

MenuVersion ==
  /\ Up
  /\ MenuGoes("version", "row")
  /\ UNCHANGED <<process, lvgl_lock, main, nextRow, task, due, monitor, labelVars,
                 lightVars>>

Row == RowOrder[nextRow]

\* AddLabel, locked: the new label's text is the row's own global string.
MenuAddLabel ==
  /\ Lock("menu")
  /\ MenuGoes("row", "assign")
  /\ label' = label \cup {Row}
  /\ text' = [text EXCEPT ![Row] = "own"]
  /\ dirty' = dirty \cup {Row}
  /\ brightness_text' = IF Row = Brightness THEN 60 ELSE brightness_text
  /\ UNCHANGED <<process, main, nextRow, task, due, monitor, obj, alive, brightness>>

AtLastRow == nextRow = Len(RowOrder)

\* AddLabel unlocks and returns the label; brightness_value does not keep it.
MenuAssign ==
  /\ Up
  /\ Unlock
  /\ obj' = IF Row = Brightness THEN obj ELSE obj \cup {Row}
  /\ IF AtLastRow
     THEN MenuGoes("assign", "battery") /\ UNCHANGED nextRow
     ELSE MenuGoes("assign", "row") /\ nextRow' = nextRow + 1
  /\ UNCHANGED <<process, main, task, due, monitor, label, text, alive, dirty,
                 lightVars>>

\* Mutant: the monitors start while main_menu is still adding rows.
MonitorsMayStartEarly == menu \in {"row", "battery"}

MonitorsMayStart == menu = "battery"

\* Battery_Init, whose result is dropped, then the monitors one by one.
MenuStartsMonitor(r) ==
  /\ Up
  /\ MonitorsMayStart
  /\ MonitorGoes(r, "none", "read")
  /\ UNCHANGED <<process, lvgl_lock, threadVars, due, labelVars, lightVars>>

MenuReturns ==
  /\ Up
  /\ MenuGoes("battery", "done")
  /\ \A r \in Rows : monitor[r] # "none"
  /\ UNCHANGED <<process, lvgl_lock, main, nextRow, task, due, monitor, labelVars,
                 lightVars>>

-----------------------------------------------------------------------------
\* A monitor reads its value and formats it into a string of its own.
MonitorReads(r) ==
  /\ Up
  /\ r # Brightness
  /\ MonitorGoes(r, "read", "lock")
  /\ alive' = alive \cup {r}
  /\ UNCHANGED <<process, lvgl_lock, threadVars, due, label, obj, text, dirty, lightVars>>

\* std::string::insert throws out_of_range, which nothing catches.
MonitorThrows(r) ==
  /\ Up
  /\ r \in Throws
  /\ MonitorGoes(r, "read", "thrown")
  /\ process' = "crashed"
  /\ UNCHANGED <<lvgl_lock, threadVars, due, labelVars, lightVars>>

\* brightness_monitor finds brightness_value.text out of date.
BrightnessMonitorReads(r) ==
  /\ Up
  /\ r = Brightness
  /\ brightness_text # brightness
  /\ MonitorGoes(r, "read", "lock")
  /\ brightness_text' = brightness
  /\ alive' = alive \cup {r}
  /\ UNCHANGED <<process, lvgl_lock, threadVars, due, label, obj, text, dirty, brightness>>

\* ChangeLabel locks.
MonitorLocks(r) ==
  /\ Lock(r)
  /\ MonitorGoes(r, "lock", "set")
  /\ UNCHANGED <<process, threadVars, due, labelVars, lightVars>>

\* ChangeLabel of a label that is there.
MonitorChanges(r) ==
  /\ Up
  /\ r \in obj
  /\ MonitorGoes(r, "set", "end")
  /\ text' = [text EXCEPT ![r] = "local"]
  /\ dirty' = dirty \cup {r}
  /\ Unlock
  /\ UNCHANGED <<process, threadVars, due, label, obj, alive, lightVars>>

\* ChangeLabel of a null pointer: LVGL, by its build options, stops in its
\* assertion with lvgl_lock held, or dereferences it.
MonitorChangesNull(r) ==
  /\ Up
  /\ r \notin obj
  /\ MonitorGoes(r, "set", "stuck")
  /\ process' \in {"up", "crashed"}
  /\ UNCHANGED <<lvgl_lock, threadVars, due, labelVars, lightVars>>

\* The iteration ends and with it the string the label points to.
MonitorEnds(r) ==
  /\ Up
  /\ MonitorGoes(r, "end", "read")
  /\ alive' = alive \ {r}
  /\ UNCHANGED <<process, lvgl_lock, threadVars, due, label, obj, text, dirty, lightVars>>

-----------------------------------------------------------------------------
\* RunTaskThread enters lv_task_handler.
TaskEnters ==
  /\ Lock("task")
  /\ task = "out" /\ task' = "in"
  /\ UNCHANGED <<process, main, menu, nextRow, due, monitor, labelVars, lightVars>>

\* The refresh, once its time has come: what is dirty is drawn.
TaskRefreshes ==
  /\ Up
  /\ task = "in"
  /\ due
  /\ due' = FALSE
  /\ dirty' = {}
  /\ UNCHANGED <<process, lvgl_lock, threadVars, monitor, label, obj, text, alive, lightVars>>

\* A press on "-" or "+", once main has added it; the callback runs here.
ButtonClicked(step) ==
  /\ Up
  /\ task = "in"
  /\ main \notin {"screen", "styles", "decrease"}
  /\ step = 1 => main # "increase"
  /\ brightness' = brightness + step
  /\ brightness' \in 60 .. 60 + MaxChange
  /\ UNCHANGED <<process, lvgl_lock, threadVars, due, monitor, labelVars, brightness_text>>

TaskLeaves ==
  /\ Up
  /\ ~due
  /\ task = "in" /\ task' = "out"
  /\ Unlock
  /\ UNCHANGED <<process, main, menu, nextRow, due, monitor, labelVars, lightVars>>

\* RunTickThread: lv_tick_inc, locked.
Tick ==
  /\ Up
  /\ lvgl_lock = "nobody"
  /\ due' = TRUE
  /\ UNCHANGED <<process, lvgl_lock, threadVars, monitor, labelVars, lightVars>>

-----------------------------------------------------------------------------
MenuStep == \/ MenuTitle \/ MenuVersion \/ MenuAddLabel \/ MenuAssign
            \/ (\E r \in Rows : MenuStartsMonitor(r)) \/ MenuReturns

MonitorStep(r) == \/ MonitorReads(r) \/ BrightnessMonitorReads(r) \/ MonitorLocks(r)
                  \/ MonitorChanges(r) \/ MonitorChangesNull(r) \/ MonitorEnds(r)

TaskStep == TaskEnters \/ TaskRefreshes \/ TaskLeaves

Next == \/ MainBuilds \/ MainWaits \/ MainSpuriousWakeup \/ MainReturns
        \/ MenuStep
        \/ \E r \in Rows : MonitorStep(r) \/ MonitorThrows(r)
        \/ TaskStep
        \/ \E step \in {-1, 1} : ButtonClicked(step)
        \/ Tick

\* Threads are scheduled, and none is overtaken for ever at lvgl_lock.  The second
\* is an assumption about the mutex that POSIX does not make: the monitors'
\* sleep(0.5) sleeps 0 seconds (core.cpp:189) and they ask for the lock at once.
Fairness == /\ SF_vars(MainBuilds \/ MainWaits) /\ SF_vars(MenuStep)
            /\ SF_vars(TaskStep) /\ SF_vars(Tick)
            /\ \A r \in Rows : SF_vars(MonitorStep(r))

Spec     == Init /\ [][Next]_vars
FairSpec == Spec /\ Fairness

-----------------------------------------------------------------------------
PanelTypeOK ==
  /\ process \in {"up", "exited", "crashed"}
  /\ lvgl_lock \in Thread
  /\ main \in {MainStage[i] : i \in 1 .. 5} \cup {"waiting", "joining", "returned"}
  /\ menu \in {"none", "title", "version", "row", "assign", "battery", "done"}
  /\ nextRow \in 1 .. Len(RowOrder)
  /\ task \in {"in", "out"}
  /\ due \in BOOLEAN
  /\ monitor \in [Rows -> {"none", "read", "lock", "set", "end", "stuck", "thrown"}]
  /\ label \subseteq Rows /\ obj \subseteq label
  /\ text \in [Rows -> {"none", "own", "local"}]
  /\ alive \subseteq Rows /\ dirty \subseteq label
  /\ brightness \in 60 .. 60 + MaxChange
  /\ brightness_text \in {0} \cup 60 .. 60 + MaxChange

\* Each battery monitor changes a label main_menu has added and kept
\* (core.cpp:188, 370): the monitors start only after the last row.
ReadingsAreActive == \A r \in Readings : monitor[r] = "set" => r \in obj

\* main returns, and ends the process, only after main_menu is through, though
\* its wait can end at any time (core.cpp:583-587); the version string in main's
\* frame is there when main_menu reads it.
MainOutlivesMenu == /\ process = "exited" => menu = "done"
                    /\ menu = "version" => main \in {"waiting", "joining"}

\* What ChangeLabel says of itself (Gui.hpp:196): it changes an active label.
ChangesActiveLabel == \A r \in Rows : monitor[r] = "set" => r \in obj

\* What ChangeLabel says of itself (Gui.hpp:198): its text is the text to
\* display.  At a refresh the string a label points to still exists.
ShowsGivenText == task = "in" /\ due => \A r \in dirty : text[r] = "local" => r \in alive

\* Nothing is promised once the process has ended, or once brightness_monitor
\* has stopped inside LVGL with lvgl_lock held.
Stopped == ~Up \/ monitor[Brightness] = "stuck"

\* A changed label is redrawn, whatever thread it was that changed it: no section
\* under lvgl_lock keeps the lock, but for the one of a label that does not exist
\* (gui.cpp:595).  That the lock is come by is Fairness's word, not shown here.
DirtyIsDrawn == \A r \in Rows : r \in dirty ~> r \notin dirty \/ Stopped
=============================================================================
