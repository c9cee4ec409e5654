------------------------------ MODULE Battery ------------------------------
(***************************************************************************)
(* The two GPIO lines of Battery.cpp as core.cpp uses them: main_menu      *)
(* calls Battery_Init, drops its result and starts a monitor for each      *)
(* line; a monitor reads its line and shows "TRUE" or "FALSE".  The        *)
(* monitors read the lines without battery_lock.                           *)
(*                                                                         *)
(* libgpiod is outside: reading a NULL line crashes, reading a line that   *)
(* was not requested returns -1.                                           *)
(***************************************************************************)
EXTENDS Integers

VARIABLES process,        \* "up" or "crashed"
          battery_lock,   \* its owner
          menu,           \* main_menu: in Battery_Init, starting, or done
          step,           \* the call of InitializeBatteryGPIOs it is at
          line,           \* each line: "null", "got" or "requested"
          level,          \* what the hardware puts on each line
          monitor,        \* each monitor's place
          value,          \* what IsMeterInDock or IsBatteryCharging returned
          seen,           \* history: the level that was read, -1 for none
          shown           \* the label

vars == <<process, battery_lock, menu, step, line, level, monitor, value, seen, shown>>

Dock     == "in_dock"
Charging == "charging"
Lines    == {Dock, Charging}

\* A line is active when the meter is in the dock (low) or charges (high).
Active(l) == IF l = Dock THEN 0 ELSE 1

Init == /\ process = "up"
        /\ battery_lock = "nobody"
        /\ menu = "init"
        /\ step = 0
        /\ line = [l \in Lines |-> "null"]
        /\ level \in [Lines -> 0 .. 1]
        /\ monitor = [l \in Lines |-> "none"]
        /\ value = [l \in Lines |-> -1]
        /\ seen = [l \in Lines |-> -1]
        /\ shown = [l \in Lines |-> "Checking..."]

Up == process = "up"

MonitorGoes(l, from, to) == monitor[l] = from /\ monitor' = [monitor EXCEPT ![l] = to]

-----------------------------------------------------------------------------
\* The six calls of InitializeBatteryGPIOs, three for each line: open the chip,
\* get the line, request it.
StepLine == IF step <= 3 THEN Dock ELSE Charging
AfterStep == CASE step \in {2, 5} -> "got"
               [] step \in {3, 6} -> "requested"
               [] OTHER           -> "null"

\* Battery_Init locks.
Battery_Init ==
  /\ menu = "init"
  /\ step = 0
  /\ battery_lock = "nobody"
  /\ battery_lock' = "menu"
  /\ step' = 1
  /\ UNCHANGED <<process, menu, line, level, monitor, value, seen, shown>>

CallsLeft == step \in 1 .. 6

\* A call succeeds.
InitializeBatteryGPIOs ==
  /\ menu = "init"
  /\ CallsLeft
  /\ step' = step + 1
  /\ line' = [line EXCEPT ![StepLine] = AfterStep]
  /\ UNCHANGED <<process, battery_lock, menu, level, monitor, value, seen, shown>>

\* Battery_Init unlocks and returns 0.
Battery_InitSucceeds ==
  /\ menu = "init"
  /\ step = 7
  /\ battery_lock' = "nobody"
  /\ menu' = "start"
  /\ UNCHANGED <<process, step, line, level, monitor, value, seen, shown>>

\* Mutant: a failed call is only logged.
FailureReturnsNot == menu' = menu /\ step' = step + 1

FailureReturns == menu' = "start" /\ UNCHANGED step

\* A call fails: Battery_Init returns -1 with battery_lock held.
Battery_InitFails ==
  /\ menu = "init"
  /\ CallsLeft
  /\ FailureReturns
  /\ UNCHANGED <<process, battery_lock, line, level, monitor, value, seen, shown>>

-----------------------------------------------------------------------------
\* Mutant: main_menu starts the monitors before Battery_Init is through.
InitHasReturnedOrNot == menu \in {"init", "start"}

InitHasReturned == menu = "start"

StartMonitor(l) ==
  /\ Up
  /\ InitHasReturned
  /\ MonitorGoes(l, "none", "read")
  /\ UNCHANGED <<process, battery_lock, menu, step, line, level, value, seen, shown>>

MenuReturns ==
  /\ Up
  /\ menu = "start" /\ menu' = "done"
  /\ \A l \in Lines : monitor[l] # "none"
  /\ UNCHANGED <<process, battery_lock, step, line, level, monitor, value, seen, shown>>

\* IsMeterInDock and IsBatteryCharging compare the level with NULL, which is 0.
IsMeterInDock(v) == IF v = 0 THEN -1 ELSE v

\* The line's level is read, without battery_lock.
MonitorReads(l) ==
  /\ Up
  /\ line[l] # "null"
  /\ MonitorGoes(l, "read", "show")
  /\ seen' \in {[seen EXCEPT ![l] = v] :
                   v \in {-1} \cup IF line[l] = "requested" THEN {level[l]} ELSE {}}
  /\ value' = [value EXCEPT ![l] = IsMeterInDock(seen'[l])]
  /\ UNCHANGED <<process, battery_lock, menu, step, line, level, shown>>

MonitorReadsNull(l) ==
  /\ Up
  /\ line[l] = "null"
  /\ MonitorGoes(l, "read", "crashed")
  /\ process' = "crashed"
  /\ UNCHANGED <<battery_lock, menu, step, line, level, value, seen, shown>>

\* Mutant: both labels take a low line for a yes.
LabelLow(l, v) == IF v = 0 THEN "TRUE" ELSE "FALSE"

Label(l, v) == IF v = Active(l) THEN "TRUE" ELSE "FALSE"

MonitorShows(l) ==
  /\ Up
  /\ MonitorGoes(l, "show", "read")
  /\ shown' = [shown EXCEPT ![l] = Label(l, value[l])]
  /\ UNCHANGED <<process, battery_lock, menu, step, line, level, value, seen>>

\* The meter is put into the dock or taken out, the charger comes or goes.
LevelChanges(l) ==
  /\ Up
  /\ level' = [level EXCEPT ![l] = 1 - level[l]]
  /\ UNCHANGED <<process, battery_lock, menu, step, line, monitor, value, seen, shown>>

-----------------------------------------------------------------------------
MenuStep == \/ Battery_Init \/ InitializeBatteryGPIOs \/ Battery_InitSucceeds
            \/ (\E l \in Lines : StartMonitor(l)) \/ MenuReturns

MonitorStep(l) == MonitorReads(l) \/ MonitorShows(l)

Next == \/ Up /\ (MenuStep \/ Battery_InitFails)
        \/ \E l \in Lines : MonitorStep(l) \/ MonitorReadsNull(l) \/ LevelChanges(l)

Spec == Init /\ [][Next]_vars

-----------------------------------------------------------------------------
BatteryTypeOK ==
  /\ process \in {"up", "crashed"}
  /\ battery_lock \in {"nobody", "menu"}
  /\ menu \in {"init", "start", "done"}
  /\ step \in 0 .. 7
  /\ line \in [Lines -> {"null", "got", "requested"}]
  /\ level \in [Lines -> 0 .. 1]
  /\ monitor \in [Lines -> {"none", "read", "show", "crashed"}]
  /\ value \in [Lines -> -1 .. 1]
  /\ seen \in [Lines -> -1 .. 1]
  /\ shown \in [Lines -> {"Checking...", "TRUE", "FALSE"}]

\* The process crashes on a NULL line only after Battery_Init has failed, which
\* main_menu ignores (core.cpp:544): no monitor overtakes Battery_Init.
CrashMeansInitFailed == process = "crashed" => menu # "init" /\ step < 7

\* Once Battery_Init is through, battery_lock is free exactly if both lines are
\* there to be read: a failure at any of the six calls leaves it locked for good
\* (Battery.cpp:85), a success never does.
LockTellsResult ==
  menu # "init" => (battery_lock = "nobody" <=> \A l \in Lines : line[l] = "requested")

\* The charging label says what the line said when it was read (core.cpp:332),
\* and "FALSE" when it could not be read.
ChargingIsShown ==
  monitor[Charging] = "read" /\ shown[Charging] # "Checking..."
     => (shown[Charging] = "TRUE" <=> seen[Charging] = 1)

\* What the two sources say of the in-dock label: a meter that is in the dock, 0
\* on the line, shows "TRUE" (core.cpp:317); "Get in dock value failed" is for
\* reads that fail (Battery.cpp:314).
DockIsShown ==
  monitor[Dock] = "read" /\ shown[Dock] # "Checking..."
     => (shown[Dock] = "TRUE" <=> seen[Dock] = 0)
=============================================================================
