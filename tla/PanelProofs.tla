----------------------------- MODULE PanelProofs -----------------------------
(***************************************************************************)
(* The start-up of the panel, for any rows in any order: the monitors find *)
(* their labels, and main does not end the process under main_menu.        *)
(***************************************************************************)
EXTENDS Panel, TLAPS

\* main_menu is created last by main, and main returns after it.
StartInv == /\ menu = "none" \/ main \in {"waiting", "joining", "returned"}
            /\ main = "returned" => menu = "done"
            /\ process = "exited" => menu = "done"

\* The rows before the current one have their labels.
Added == \A i \in 1 .. nextRow - 1 : RowOrder[i] \in Readings => RowOrder[i] \in obj

RowInv == /\ menu \in {"none", "title", "version"} => nextRow = 1
          /\ Added
          /\ menu = "assign" => Row \in label
          /\ menu \in {"battery", "done"} => Readings \subseteq obj

\* A monitor runs only when all rows are there.
MonitorInv == \A r \in Rows : monitor[r] # "none" => menu \in {"battery", "done"}

IInv == PanelTypeOK /\ StartInv /\ RowInv /\ MonitorInv

Place == {"none", "read", "lock", "set", "end", "stuck", "thrown"}

-----------------------------------------------------------------------------
LEMMA RowsIndexed ==
  /\ Len(RowOrder) \in Nat \ {0}
  /\ \A i \in 1 .. Len(RowOrder) : RowOrder[i] \in Rows
  /\ \A r \in Rows : \E i \in 1 .. Len(RowOrder) : r = RowOrder[i]
  /\ Brightness \in Rows
  <1>1. RowOrder \in Seq(Rows) /\ Len(RowOrder) \in Nat \ {0}
    BY PanelAssumption
  <1>2. DOMAIN RowOrder = 1 .. Len(RowOrder)
    BY <1>1
  <1> QED  BY <1>1, <1>2, PanelAssumption DEF Rows

LEMMA InitInv == Init => IInv
  <1> SUFFICES ASSUME Init PROVE IInv
    OBVIOUS
  <1>1. PanelTypeOK
    <2>1. main \in {MainStage[i] : i \in 1 .. 5}
      <3>1. main = MainStage[1] /\ 1 \in 1 .. 5
        BY DEF Init, MainStage
      <3> QED  BY <3>1
    <2>2. 1 \in 1 .. Len(RowOrder)
      BY RowsIndexed
    <2>3. 60 \in 60 .. 60 + MaxChange
      BY PanelAssumption
    <2> QED  BY <2>1, <2>2, <2>3 DEF Init, PanelTypeOK, Thread
  <1>2. StartInv /\ RowInv /\ MonitorInv
    BY DEF Init, StartInv, RowInv, Added, MonitorInv
  <1> QED  BY <1>1, <1>2 DEF IInv

\* A step of main, LVGL's threads or a button changes nothing main_menu needs.
LEMMA MainStep ==
  ASSUME IInv, MainBuilds \/ MainWaits \/ MainSpuriousWakeup \/ MainReturns
  PROVE  IInv'
  <1> USE DEF IInv, labelVars, lightVars, MainGoes
  <1>1. CASE MainBuilds
    <2>1. menu = "none" /\ menu' = "none" /\ process' = "up"
      BY <1>1 DEF MainBuilds, Up, StartInv, MainStage
    <2>2. main' \in {MainStage[i] : i \in 1 .. 5} /\ main' # "returned"
      BY <1>1 DEF MainBuilds, MainStage
    <2>3. PanelTypeOK'
      BY <1>1, <2>1, <2>2 DEF MainBuilds, PanelTypeOK
    <2> QED  BY <1>1, <2>1, <2>2, <2>3
             DEF MainBuilds, StartInv, RowInv, Added, Row, MonitorInv
  <1>2. CASE MainWaits
    <2>1. menu = "none"
      BY <1>2 DEF MainWaits, StartInv
    <2> QED  BY <1>2, <2>1
             DEF MainWaits, Up, PanelTypeOK, StartInv, RowInv, Added, Row, MonitorInv
  <1>3. CASE MainSpuriousWakeup
    BY <1>3 DEF MainSpuriousWakeup, PanelTypeOK, StartInv, RowInv, Added, Row, MonitorInv
  <1>4. CASE MainReturns
    BY <1>4 DEF MainReturns, MenuJoined, PanelTypeOK, StartInv, RowInv, Added, Row,
                MonitorInv
  <1> QED  BY <1>1, <1>2, <1>3, <1>4

LEMMA LvglStep ==
  ASSUME IInv, \/ TaskEnters \/ TaskRefreshes \/ TaskLeaves \/ Tick
               \/ \E step \in {-1, 1} : ButtonClicked(step)
  PROVE  IInv'
  <1> USE DEF IInv, threadVars, labelVars, lightVars, Thread
  <1>1. CASE TaskEnters
    <2>1. PanelTypeOK'
      BY <1>1 DEF TaskEnters, Lock, PanelTypeOK
    <2> QED  BY <1>1, <2>1
             DEF TaskEnters, Lock, StartInv, RowInv, Added, Row, MonitorInv
  <1>2. CASE TaskRefreshes
    <2>1. PanelTypeOK'
      <3>1. /\ due' = FALSE /\ dirty' = {}
            /\ UNCHANGED <<process, lvgl_lock, main, menu, nextRow, task, monitor, label,
                           obj, text, alive, brightness, brightness_text>>
        BY <1>2 DEF TaskRefreshes
      <3>2. due' \in BOOLEAN /\ dirty' \subseteq label'
        BY <3>1
      <3> QED  BY <3>1, <3>2 DEF PanelTypeOK
    <2> QED  BY <1>2, <2>1 DEF TaskRefreshes, StartInv, RowInv, Added, Row, MonitorInv
  <1>3. CASE TaskLeaves
    <2>1. PanelTypeOK'
      BY <1>3 DEF TaskLeaves, Unlock, PanelTypeOK
    <2> QED  BY <1>3, <2>1 DEF TaskLeaves, Unlock, StartInv, RowInv, Added, Row, MonitorInv
  <1>4. CASE Tick
    <2>1. PanelTypeOK'
      BY <1>4 DEF Tick, PanelTypeOK
    <2> QED  BY <1>4, <2>1 DEF Tick, StartInv, RowInv, Added, Row, MonitorInv
  <1>5. CASE \E step \in {-1, 1} : ButtonClicked(step)
    <2>1. PanelTypeOK'
      BY <1>5 DEF ButtonClicked, PanelTypeOK
    <2> QED  BY <1>5, <2>1 DEF ButtonClicked, StartInv, RowInv, Added, Row, MonitorInv
  <1> QED  BY <1>1, <1>2, <1>3, <1>4, <1>5

\* main_menu adds the rows one after the other and only then starts a monitor.
LEMMA AddLabelStep == ASSUME IInv, MenuAddLabel PROVE IInv'
  <1> USE DEF IInv, MenuGoes
  <1>1. Row \in Rows
    BY RowsIndexed DEF Row, PanelTypeOK
  <1>2. PanelTypeOK'
    BY <1>1, PanelAssumption DEF MenuAddLabel, Lock, PanelTypeOK, Thread
  <1>3. StartInv' /\ MonitorInv'
    BY DEF MenuAddLabel, Lock, Up, StartInv, MonitorInv
  <1>4. RowInv'
    BY DEF MenuAddLabel, RowInv, Added, Row
  <1> QED  BY <1>2, <1>3, <1>4

LEMMA AssignStep == ASSUME IInv, MenuAssign PROVE IInv'
  <1> USE DEF IInv, MenuGoes
  <1>1. /\ Len(RowOrder) \in Nat \ {0} /\ nextRow \in 1 .. Len(RowOrder)
        /\ Row \in Rows /\ Row \in label
        /\ menu = "assign"
    BY RowsIndexed DEF Row, PanelTypeOK, MenuAssign, RowInv
  <1>2. obj \subseteq obj' /\ obj' \subseteq label /\ (Row \in Readings => Row \in obj')
    BY <1>1 DEF MenuAssign, PanelTypeOK, Readings
  <1>3. /\ nextRow' \in 1 .. Len(RowOrder)
        /\ menu' \in {"row", "battery"}
        /\ nextRow' = nextRow \/ (nextRow' = nextRow + 1 /\ menu' = "row")
        /\ menu' = "battery" => nextRow = Len(RowOrder)
    BY <1>1 DEF MenuAssign, AtLastRow
  <1>4. PanelTypeOK'
    <2>1. /\ lvgl_lock' = "nobody"
          /\ UNCHANGED <<process, main, task, due, monitor, label, text, alive, dirty,
                         lightVars>>
      BY DEF MenuAssign, Unlock
    <2> QED  BY <1>2, <1>3, <2>1 DEF PanelTypeOK, Thread, lightVars
  <1>5. StartInv' /\ MonitorInv'
    BY <1>1, <1>3 DEF MenuAssign, Up, StartInv, MonitorInv
  <1>6. \A i \in 1 .. nextRow : RowOrder[i] \in Readings => RowOrder[i] \in obj'
    <2> TAKE i \in 1 .. nextRow
    <2>1. CASE i = nextRow
      BY <2>1, <1>2 DEF Row
    <2>2. CASE i \in 1 .. nextRow - 1
      BY <2>2, <1>2 DEF RowInv, Added
    <2> QED  BY <1>1, <2>1, <2>2
  <1>7. Added'
    <2> SUFFICES ASSUME NEW i \in 1 .. nextRow' - 1 PROVE i \in 1 .. nextRow
      BY <1>6 DEF Added
    <2>1. nextRow \in Nat /\ nextRow' \in Nat
      BY <1>1, <1>3
    <2>2. nextRow' = nextRow \/ nextRow' = nextRow + 1
      BY <1>3
    <2>3. ASSUME NEW n \in Nat, NEW m \in Nat, m = n \/ m = n + 1, NEW j \in 1 .. m - 1
          PROVE  j \in 1 .. n
      BY <2>3
    <2> QED  BY <2>1, <2>2, <2>3
  <1>8. menu' = "battery" => Readings \subseteq obj'
    BY <1>3, <1>6, RowsIndexed DEF Readings
  <1>9. RowInv'
    BY <1>3, <1>7, <1>8 DEF RowInv
  <1> QED  BY <1>4, <1>5, <1>9

LEMMA MenuOtherStep ==
  ASSUME IInv, \/ MenuTitle \/ MenuVersion \/ MenuReturns
               \/ \E r \in Rows : MenuStartsMonitor(r)
  PROVE  IInv'
  <1> USE DEF IInv, MenuGoes, threadVars, labelVars, lightVars, Up
  <1>1. CASE MenuTitle
    BY <1>1 DEF MenuTitle, PanelTypeOK, StartInv, RowInv, Added, Row, MonitorInv
  <1>2. CASE MenuVersion
    BY <1>2 DEF MenuVersion, PanelTypeOK, StartInv, RowInv, Added, Row, MonitorInv
  <1>3. CASE MenuReturns
    BY <1>3 DEF MenuReturns, PanelTypeOK, StartInv, RowInv, Added, Row, MonitorInv
  <1>4. ASSUME NEW r \in Rows, MenuStartsMonitor(r) PROVE IInv'
    BY <1>4 DEF MenuStartsMonitor, MonitorGoes, MonitorsMayStart, PanelTypeOK, StartInv,
                RowInv, Added, Row, MonitorInv
  <1> QED  BY <1>1, <1>2, <1>3, <1>4

\* A monitor that takes a step is past "none"; it changes no label's existence.
LEMMA MonitorKeeps ==
  ASSUME IInv, NEW r \in Rows, MonitorStep(r) \/ MonitorThrows(r)
  PROVE  IInv'
  <1>1. /\ monitor[r] # "none"
        /\ \E to \in Place : monitor' = [monitor EXCEPT ![r] = to]
        /\ process = "up" /\ process' \in {"up", "crashed"}
        /\ lvgl_lock' \in {lvgl_lock, "nobody", r}
        /\ UNCHANGED <<threadVars, due, label, obj, brightness>>
        /\ text' = text \/ text' = [text EXCEPT ![r] = "local"]
        /\ alive' \subseteq alive \cup {r}
        /\ dirty' = dirty \/ (r \in obj /\ dirty' = dirty \cup {r})
        /\ brightness_text' \in {brightness_text, brightness}
    <2> USE DEF MonitorGoes, Place, Up, labelVars, lightVars
    <2>1. CASE MonitorReads(r)
      BY <2>1 DEF MonitorReads
    <2>2. CASE BrightnessMonitorReads(r)
      BY <2>2 DEF BrightnessMonitorReads
    <2>3. CASE MonitorLocks(r)
      BY <2>3 DEF MonitorLocks, Lock
    <2>4. CASE MonitorChanges(r)
      BY <2>4 DEF MonitorChanges, Unlock
    <2>5. CASE MonitorChangesNull(r)
      BY <2>5 DEF MonitorChangesNull
    <2>6. CASE MonitorEnds(r)
      BY <2>6 DEF MonitorEnds
    <2>7. CASE MonitorThrows(r)
      BY <2>7 DEF MonitorThrows
    <2> QED  BY <2>1, <2>2, <2>3, <2>4, <2>5, <2>6, <2>7 DEF MonitorStep
  <1>2. PanelTypeOK'
    BY <1>1 DEF IInv, PanelTypeOK, Place, Thread, threadVars
  <1>3. StartInv' /\ RowInv' /\ MonitorInv'
    BY <1>1 DEF IInv, PanelTypeOK, StartInv, RowInv, Added, Row, MonitorInv, threadVars
  <1> QED  BY <1>2, <1>3 DEF IInv

LEMMA Stutter == ASSUME IInv, UNCHANGED vars PROVE IInv'
  BY DEF IInv, PanelTypeOK, StartInv, RowInv, Added, Row, MonitorInv, vars, threadVars,
         labelVars, lightVars

LEMMA Invariance == Spec => []IInv
  <1>1. ASSUME IInv, [Next]_vars PROVE IInv'
    <2>1. CASE MainBuilds \/ MainWaits \/ MainSpuriousWakeup \/ MainReturns
      BY <1>1, <2>1, MainStep
    <2>2. CASE MenuStep
      BY <1>1, <2>2, AddLabelStep, AssignStep, MenuOtherStep DEF MenuStep
    <2>3. CASE \E r \in Rows : MonitorStep(r) \/ MonitorThrows(r)
      BY <1>1, <2>3, MonitorKeeps
    <2>4. CASE TaskStep \/ Tick \/ \E step \in {-1, 1} : ButtonClicked(step)
      BY <1>1, <2>4, LvglStep DEF TaskStep
    <2>5. CASE UNCHANGED vars
      BY <1>1, <2>5, Stutter
    <2> QED  BY <1>1, <2>1, <2>2, <2>3, <2>4, <2>5 DEF Next
  <1> QED  BY <1>1, InitInv, PTL DEF Spec

-----------------------------------------------------------------------------
\* For any rows, every variable of the panel keeps its type; what is to be drawn
\* has a label (core.cpp:398-560, gui.cpp:386-600).
THEOREM PanelTypeCorrect == Spec => []PanelTypeOK
  <1>1. IInv => PanelTypeOK
    BY DEF IInv
  <1> QED  BY <1>1, Invariance, PTL

\* For any number of rows: a battery monitor changes only a label that main_menu
\* has added and kept (core.cpp:188, 370, 537-548).
THEOREM ReadingsActive == Spec => []ReadingsAreActive
  <1>1. IInv => ReadingsAreActive
    BY DEF IInv, RowInv, MonitorInv, ReadingsAreActive, Readings
  <1> QED  BY <1>1, Invariance, PTL

\* For any number of rows, and whenever the wait of main returns: the process
\* outlives main_menu, and the version string its reading (core.cpp:583-587).
THEOREM MenuOutlived == Spec => []MainOutlivesMenu
  <1>1. IInv => MainOutlivesMenu
    BY DEF IInv, StartInv, MainOutlivesMenu
  <1> QED  BY <1>1, Invariance, PTL
=============================================================================
