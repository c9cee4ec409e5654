--------------------------- MODULE BatteryProofs ---------------------------
(***************************************************************************)
(* The four invariants of the Battery module: they need that the lines are *)
(* as far as the step of Battery_Init says, and that what a monitor holds  *)
(* is what it read.                                                        *)
(***************************************************************************)
EXTENDS Battery, TLAPS

\* The step says which of the calls have succeeded.
StepInv ==
  /\ step < 3 => line[Dock] = "null"
  /\ step = 3 => line[Dock] = "got"
  /\ step > 3 => line[Dock] = "requested"
  /\ step < 6 => line[Charging] = "null"
  /\ step = 6 => line[Charging] = "got"
  /\ step = 7 => line[Charging] = "requested"

\* The lock is held from the first step until Battery_Init has succeeded.
LockInv == /\ battery_lock = "menu" <=> step \in 1 .. 6 \/ (step = 7 /\ menu = "init")
           /\ menu # "init" => step \in 1 .. 7

\* Monitors start after Battery_Init, and crash on a line that is not there.
MonitorInv ==
  /\ \A l \in Lines : monitor[l] # "none" => menu # "init"
  /\ process = "crashed" => menu # "init" /\ \E l \in Lines : line[l] = "null"

\* The charging monitor's value is what it read, 0 and a failure apart.
ValueInv ==
  /\ monitor[Charging] = "none" => shown[Charging] = "Checking..."
  /\ monitor[Charging] = "show" => value[Charging] = IsMeterInDock(seen[Charging])
  /\ ChargingIsShown

IInv == BatteryTypeOK /\ StepInv /\ LockInv /\ MonitorInv /\ ValueInv

LEMMA TwoLines == Dock # Charging /\ Lines = {Dock, Charging}
  BY DEF Dock, Charging, Lines

LEMMA InvInit == Init => IInv
<1> SUFFICES ASSUME Init PROVE IInv
  OBVIOUS
<1> USE TwoLines DEF Init
<1>1. BatteryTypeOK
  BY DEF BatteryTypeOK
<1>2. StepInv /\ LockInv
  BY DEF StepInv, LockInv
<1>3. MonitorInv /\ ValueInv
  BY DEF MonitorInv, ValueInv, ChargingIsShown
<1>4. QED
  BY <1>1, <1>2, <1>3 DEF IInv

LEMMA TypeStep == IInv /\ [Next]_vars => BatteryTypeOK'
<1> SUFFICES ASSUME IInv, [Next]_vars PROVE BatteryTypeOK'
  OBVIOUS
<1> USE TwoLines DEF IInv, BatteryTypeOK
<1>1. CASE Battery_Init
  BY <1>1 DEF Battery_Init
<1>2. CASE InitializeBatteryGPIOs
  <2>1. step' \in 0 .. 7
    BY <1>2 DEF InitializeBatteryGPIOs, CallsLeft
  <2>2. line' \in [Lines -> {"null", "got", "requested"}]
    BY <1>2 DEF InitializeBatteryGPIOs, AfterStep, StepLine
  <2>3. QED
    BY <1>2, <2>1, <2>2 DEF InitializeBatteryGPIOs
<1>3. CASE Battery_InitSucceeds \/ Battery_InitFails
  BY <1>3 DEF Battery_InitSucceeds, Battery_InitFails, FailureReturns
<1>4. ASSUME NEW l \in Lines, StartMonitor(l) PROVE BatteryTypeOK'
  BY <1>4 DEF StartMonitor, MonitorGoes
<1>5. CASE MenuReturns
  BY <1>5 DEF MenuReturns
<1>6. ASSUME NEW l \in Lines, MonitorReads(l) PROVE BatteryTypeOK'
  <2>1. PICK v \in -1 .. 1 : seen' = [seen EXCEPT ![l] = v]
    BY <1>6 DEF MonitorReads
  <2>2. seen' \in [Lines -> -1 .. 1]
    BY <2>1
  <2>3. value' \in [Lines -> -1 .. 1]
    BY <1>6, <2>1, <2>2 DEF MonitorReads, IsMeterInDock
  <2>4. QED
    BY <1>6, <2>2, <2>3 DEF MonitorReads, MonitorGoes
<1>7. ASSUME NEW l \in Lines, MonitorReadsNull(l) PROVE BatteryTypeOK'
  BY <1>7 DEF MonitorReadsNull, MonitorGoes
<1>8. ASSUME NEW l \in Lines, MonitorShows(l) PROVE BatteryTypeOK'
  BY <1>8 DEF MonitorShows, MonitorGoes, Label
<1>9. ASSUME NEW l \in Lines, LevelChanges(l) PROVE BatteryTypeOK'
  BY <1>9 DEF LevelChanges
<1>10. CASE UNCHANGED vars
  BY <1>10 DEF vars
<1>11. QED
  BY <1>1, <1>2, <1>3, <1>4, <1>5, <1>6, <1>7, <1>8, <1>9, <1>10
     DEF Next, MenuStep, MonitorStep

LEMMA StepStep == IInv /\ [Next]_vars => (StepInv /\ LockInv)'
<1> SUFFICES ASSUME IInv, [Next]_vars PROVE (StepInv /\ LockInv)'
  OBVIOUS
<1> USE TwoLines DEF IInv, BatteryTypeOK, StepInv, LockInv
<1>1. CASE Battery_Init
  BY <1>1 DEF Battery_Init
<1>2. CASE InitializeBatteryGPIOs
  <2>1. line' = [line EXCEPT ![StepLine] = AfterStep]
    BY <1>2 DEF InitializeBatteryGPIOs
  <2>2. step \in 1 .. 6 /\ step' = step + 1
    BY <1>2 DEF InitializeBatteryGPIOs, CallsLeft
  <2>3. CASE step \in 1 .. 3
    <3>1. StepLine = Dock
      BY <2>3 DEF StepLine
    <3>2. AfterStep = IF step = 2 THEN "got" ELSE IF step = 3 THEN "requested" ELSE "null"
      BY <2>2, <2>3 DEF AfterStep
    <3>3. line'[Dock] = AfterStep /\ line'[Charging] = line[Charging]
      BY <2>1, <3>1
    <3>4. QED
      BY <1>2, <2>2, <2>3, <3>2, <3>3 DEF InitializeBatteryGPIOs
  <2>4. CASE step \in 4 .. 6
    <3>1. StepLine = Charging
      BY <2>4 DEF StepLine
    <3>2. AfterStep = IF step = 5 THEN "got" ELSE IF step = 6 THEN "requested" ELSE "null"
      BY <2>2, <2>4 DEF AfterStep
    <3>3. line'[Charging] = AfterStep /\ line'[Dock] = line[Dock]
      BY <2>1, <3>1
    <3>4. QED
      BY <1>2, <2>2, <2>4, <3>2, <3>3 DEF InitializeBatteryGPIOs
  <2>5. QED
    BY <2>2, <2>3, <2>4
<1>3. CASE Battery_InitSucceeds \/ Battery_InitFails
  BY <1>3 DEF Battery_InitSucceeds, Battery_InitFails, FailureReturns, CallsLeft
<1>4. ASSUME NEW l \in Lines, StartMonitor(l) PROVE (StepInv /\ LockInv)'
  BY <1>4 DEF StartMonitor
<1>5. CASE MenuReturns
  BY <1>5 DEF MenuReturns
<1>6. ASSUME NEW l \in Lines, MonitorReads(l) \/ MonitorReadsNull(l)
      PROVE  (StepInv /\ LockInv)'
  BY <1>6 DEF MonitorReads, MonitorReadsNull
<1>7. ASSUME NEW l \in Lines, MonitorShows(l) \/ LevelChanges(l)
      PROVE  (StepInv /\ LockInv)'
  BY <1>7 DEF MonitorShows, LevelChanges
<1>8. CASE UNCHANGED vars
  BY <1>8 DEF vars
<1>9. QED
  BY <1>1, <1>2, <1>3, <1>4, <1>5, <1>6, <1>7, <1>8 DEF Next, MenuStep, MonitorStep

LEMMA MonitorStepInv == IInv /\ [Next]_vars => (MonitorInv /\ ValueInv)'
<1> SUFFICES ASSUME IInv, [Next]_vars PROVE (MonitorInv /\ ValueInv)'
  OBVIOUS
<1> USE TwoLines DEF IInv, BatteryTypeOK, MonitorInv, ValueInv, ChargingIsShown
<1>1. CASE Battery_Init
  BY <1>1 DEF Battery_Init
<1>2. CASE InitializeBatteryGPIOs
  BY <1>2 DEF InitializeBatteryGPIOs, Next, Up, MenuStep
<1>3. CASE Battery_InitSucceeds \/ Battery_InitFails
  BY <1>3 DEF Battery_InitSucceeds, Battery_InitFails, FailureReturns
<1>4. ASSUME NEW l \in Lines, StartMonitor(l) PROVE (MonitorInv /\ ValueInv)'
  BY <1>4 DEF StartMonitor, InitHasReturned, MonitorGoes, Up
<1>5. CASE MenuReturns
  BY <1>5 DEF MenuReturns
<1>6. ASSUME NEW l \in Lines, MonitorReads(l) PROVE (MonitorInv /\ ValueInv)'
  BY <1>6 DEF MonitorReads, MonitorGoes, Up
<1>7. ASSUME NEW l \in Lines, MonitorReadsNull(l) PROVE (MonitorInv /\ ValueInv)'
  BY <1>7 DEF MonitorReadsNull, MonitorGoes
<1>8. ASSUME NEW l \in Lines, MonitorShows(l) PROVE (MonitorInv /\ ValueInv)'
  BY <1>8 DEF MonitorShows, MonitorGoes, Label, Active, IsMeterInDock, Up
<1>9. ASSUME NEW l \in Lines, LevelChanges(l) PROVE (MonitorInv /\ ValueInv)'
  BY <1>9 DEF LevelChanges, Up
<1>10. CASE UNCHANGED vars
  BY <1>10 DEF vars
<1>11. QED
  BY <1>1, <1>2, <1>3, <1>4, <1>5, <1>6, <1>7, <1>8, <1>9, <1>10
     DEF Next, MenuStep, MonitorStep

LEMMA InvHolds == Spec => []IInv
<1>1. IInv /\ [Next]_vars => IInv'
  BY TypeStep, StepStep, MonitorStepInv DEF IInv
<1>2. QED
  BY <1>1, InvInit, PTL DEF Spec

-----------------------------------------------------------------------------
\* Every variable of the battery keeps its type.
THEOREM BatteryTypeCorrect == Spec => []BatteryTypeOK
<1>1. IInv => BatteryTypeOK
  BY DEF IInv
<1>2. QED
  BY <1>1, InvHolds, PTL

\* A NULL line is read only after Battery_Init has failed (core.cpp:544).
THEOREM CrashesExplained == Spec => []CrashMeansInitFailed
<1>1. IInv => CrashMeansInitFailed
  BY TwoLines DEF IInv, MonitorInv, StepInv, BatteryTypeOK, CrashMeansInitFailed
<1>2. QED
  BY <1>1, InvHolds, PTL

\* Once Battery_Init is through, battery_lock is free exactly if both lines can be
\* read (Battery.cpp:85).
THEOREM LockIsTheResult == Spec => []LockTellsResult
<1>1. IInv => LockTellsResult
  BY TwoLines DEF IInv, LockInv, StepInv, BatteryTypeOK, LockTellsResult
<1>2. QED
  BY <1>1, InvHolds, PTL

\* The charging label says what was read (core.cpp:332).
THEOREM ChargingLabelIsTrue == Spec => []ChargingIsShown
<1>1. IInv => ChargingIsShown
  BY DEF IInv, ValueInv
<1>2. QED
  BY <1>1, InvHolds, PTL
=============================================================================
