---------------------------- MODULE BatteryLines ----------------------------
(***************************************************************************)
(* The rest of the GPIO side of Battery.cpp, for any program that uses it: *)
(* Battery_Init and RunBatteryMonitorCleanup, more than once, OpenGPIO,    *)
(* CloseGPIO and ReadGPIO with pointers to lines of their own, and the     *)
(* task BatteryTaskLoop that waits for falling edges.                      *)
(*                                                                         *)
(* libgpiod is outside.  A chip object is a port and the number of its     *)
(* opening, a handle an object and a pin: what is asked for twice is the   *)
(* same handle.  A line of the kernel, a port and a pin, is requested by   *)
(* one handle at a time.  gpiod_chip_close frees the handles of its        *)
(* object; a use of one of them, or of NULL, is undefined, and the model   *)
(* ends there.  Every call may fail.                                       *)
(***************************************************************************)
EXTENDS Integers

CONSTANT MaxInits    \* bound: calls of Battery_Init

ASSUME LinesAssumption == MaxInits \in Nat

Dock     == "in_dock"
Charging == "charging"
Lines    == {Dock, Charging}     \* names ports and pins as well

VARIABLES battery_lock,     \* "free", or "held" by a call that has returned
          inits,            \* calls of Battery_Init so far
          alive,            \* chip objects not closed
          chip,             \* in_dock_chip, charging_chip
          line,             \* in_dock_line, charging_line
          power,            \* power_lines[].line
          requested,        \* handles that hold their line
          level,            \* of the kernel's lines
          event,            \* handles with a falling edge to be read
          GPIOs,            \* BatteryTaskLoop: the lines it will look at
          Is,               \* IsInDock, IsCharging
          misused,          \* a handle was used that is freed or NULL
          sound, closed     \* history: every Battery_Init succeeded, the
                            \* clean-up was called

handleVars  == <<alive, chip, line, power, requested>>
historyVars == <<sound, closed>>
vars == <<battery_lock, inits, handleVars, level, event, GPIOs, Is, misused, historyVars>>

NoChip == <<"none", 0>>
NULL   == <<NoChip, Dock>>
Chip   == Lines \X (1 .. MaxInits)
Handle == Chip \X Lines

\* The lines of the kernel that a handle of this code can stand for.
Kernel == {<<Dock, Dock>>, <<Charging, Charging>>, <<Dock, Charging>>}

Init == /\ battery_lock = "free"
        /\ inits = 0
        /\ alive = {}
        /\ chip = [l \in Lines |-> NoChip]
        /\ line = [l \in Lines |-> NULL]
        /\ power = [l \in Lines |-> NULL]
        /\ requested = {}
        /\ level = [k \in Kernel |-> 1]
        /\ event = {}
        /\ GPIOs = {}
        /\ Is = [l \in Lines |-> -1]
        /\ misused = FALSE
        /\ sound = FALSE
        /\ closed = FALSE

Usable(h)  == h[1] \in alive
LineOf(h)  == <<h[1][1], h[2]>>
Taken(k)   == \E h \in requested : LineOf(h) = k
Drops(set) == requested' = requested \ set /\ event' = event \ set

-----------------------------------------------------------------------------
\* Mutant: the charging line is not missed.
AllDoneOrSo(n) == n >= 4

AllDone(n) == n = 6

\* Battery_Init: n of the six calls of InitializeBatteryGPIOs succeed, three for
\* each line, and the results go over whatever the pointers were.
Battery_Init(n) ==
  LET object(l) == <<l, inits + 1>>
      handle(l) == <<object(l), l>>
      done(l)   == IF l = Dock THEN n ELSE n - 3    \* of the three for l
  IN /\ ~misused
     /\ battery_lock = "free"
     /\ inits < MaxInits
     /\ inits' = inits + 1
     /\ \A l \in Lines : done(l) >= 3 => ~Taken(<<l, l>>)
     /\ alive' = alive \cup {object(l) : l \in {m \in Lines : done(m) >= 1}}
     /\ chip' = [l \in Lines |-> IF done(l) >= 1 THEN object(l)
                                 ELSE IF done(l) = 0 THEN NoChip ELSE chip[l]]
     /\ line' = [l \in Lines |-> IF done(l) >= 2 THEN handle(l)
                                 ELSE IF done(l) = 1 THEN NULL ELSE line[l]]
     /\ requested' = requested \cup {handle(l) : l \in {m \in Lines : done(m) >= 3}}
     /\ battery_lock' = IF AllDone(n) THEN "free" ELSE "held"
     /\ sound' = (AllDone(n) /\ (inits = 0 \/ sound))
     /\ UNCHANGED <<power, level, event, GPIOs, Is, misused, closed>>

\* CloseGPIOs: both lines released, both chips closed, the pointers to the lines
\* kept.
CloseGPIOs ==
  LET gone == {h \in requested : h[1] \in {chip[l] : l \in Lines}}
  IN /\ misused' = \E l \in Lines : line[l] # NULL /\ ~Usable(line[l])
     /\ Drops(gone \cup {line[l] : l \in Lines})
     /\ alive' = alive \ {chip[l] : l \in Lines}
     /\ chip' = [l \in Lines |-> NoChip]

RunBatteryMonitorCleanup ==
  /\ ~misused
  /\ battery_lock = "free"
  /\ CloseGPIOs
  /\ closed' = TRUE
  /\ UNCHANGED <<battery_lock, inits, line, power, level, GPIOs, Is, sound>>

-----------------------------------------------------------------------------
\* OpenGPIO gets the line from in_dock_chip, whichever line it is.
ChipFor(l) == chip[Dock]

\* Mutant: a request that fails releases the line.
KeptNot(h) == Drops({h})

Kept(h) == UNCHANGED <<requested, event>>

OpenGPIO(l) ==
  LET h == IF power[l] # NULL THEN power[l] ELSE <<ChipFor(l), l>>
  IN /\ ~misused
     /\ misused' = ~Usable(h)
     /\ \/ /\ Usable(h)
           /\ power' = [power EXCEPT ![l] = h]
           /\ \/ Kept(h)
              \/ /\ ~Taken(LineOf(h))
                 /\ requested' = requested \cup {h}
                 /\ UNCHANGED event
        \/ UNCHANGED <<power, requested, event>>    \* there is no such line
     /\ UNCHANGED <<battery_lock, inits, alive, chip, line, level, GPIOs, Is, historyVars>>

CloseGPIO(l) ==
  /\ ~misused
  /\ power[l] # NULL
  /\ misused' = ~Usable(power[l])
  /\ Drops({power[l]})
  /\ power' = [power EXCEPT ![l] = NULL]
  /\ UNCHANGED <<battery_lock, inits, alive, chip, line, level, GPIOs, Is, historyVars>>

\* ReadGPIO with GetGPIOLineValue, which tests for NULL; the value is only logged.
ReadGPIO(l) ==
  /\ ~misused
  /\ power[l] # NULL
  /\ misused' = ~Usable(power[l])
  /\ UNCHANGED <<battery_lock, inits, handleVars, level, event, GPIOs, Is, historyVars>>

\* A line goes up or down; a requested one notices its falling edge.
LevelChanges(k) ==
  /\ ~misused
  /\ level' = [level EXCEPT ![k] = 1 - @]
  /\ event' = event \cup {h \in requested : LineOf(h) = k /\ level[k] = 1}
  /\ UNCHANGED <<battery_lock, inits, handleVars, GPIOs, Is, misused, historyVars>>

-----------------------------------------------------------------------------
Watched == {power[l] : l \in Lines} \ {NULL}

\* Mutant: one line at a time, the first that has an event.
ReadyFirst == IF power[Dock] \in event THEN {power[Dock]} ELSE event \cap Watched

Ready == event \cap Watched

\* libgpiod waits for requested lines of one chip and refuses others.
CanWait == Watched \subseteq requested /\ \A g, h \in Watched : g[1] = h[1]

\* MonitorForGPIOEvent: the edges of all lines that have one are read, and tell
\* by their pins which lines to look at.
MonitorForGPIOEvent ==
  /\ ~misused
  /\ GPIOs = {}
  /\ \/ /\ CanWait
        /\ Ready # {}
        /\ GPIOs' = {h[2] : h \in Ready}
        /\ event' = event \ Ready
        /\ UNCHANGED misused
     \/ /\ \E h \in Watched : ~Usable(h)
        /\ misused' = TRUE
        /\ UNCHANGED <<GPIOs, event>>
  /\ UNCHANGED <<battery_lock, inits, handleVars, level, Is, historyVars>>

\* What gpiod_line_get_value returns, and IsMeterInDock makes of it.
Values(h) == {-1} \cup IF h \in requested THEN {level[LineOf(h)]} ELSE {}

Is_(value) == IF value = 0 THEN -1 ELSE value

\* BatteryTaskLoop compares for one line; with two nothing is looked at.
BatteryTaskLoop ==
  /\ ~misused
  /\ GPIOs # {}
  /\ GPIOs' = {}
  /\ \/ \E l \in Lines : /\ GPIOs = {l}
                         /\ misused' = ~Usable(line[l])
                         /\ \E v \in Values(line[l]) : Is' = [Is EXCEPT ![l] = Is_(v)]
     \/ GPIOs = Lines /\ UNCHANGED <<Is, misused>>
  /\ UNCHANGED <<battery_lock, inits, handleVars, level, event, historyVars>>

-----------------------------------------------------------------------------
TaskStep == MonitorForGPIOEvent \/ BatteryTaskLoop

Next == \/ \E n \in 0 .. 6 : Battery_Init(n)
        \/ RunBatteryMonitorCleanup
        \/ \E l \in Lines : OpenGPIO(l) \/ CloseGPIO(l) \/ ReadGPIO(l)
        \/ \E k \in Kernel : LevelChanges(k)
        \/ TaskStep

\* The task is scheduled; nobody has to call and no line has to move.
Spec     == Init /\ [][Next]_vars
FairSpec == Spec /\ WF_vars(TaskStep)

-----------------------------------------------------------------------------
LinesTypeOK ==
  /\ battery_lock \in {"free", "held"}
  /\ inits \in 0 .. MaxInits
  /\ alive \subseteq Chip
  /\ chip \in [Lines -> Chip \cup {NoChip}]
  /\ line \in [Lines -> Handle \cup {NULL}]
  /\ power \in [Lines -> Handle \cup {<<NoChip, l>> : l \in Lines}]
  /\ event \subseteq requested
  /\ \A h \in requested : Usable(h)
  /\ level \in [Kernel -> 0 .. 1]
  /\ GPIOs \subseteq Lines
  /\ Is \in [Lines -> {-1, 0, 1}]
  /\ misused \in BOOLEAN /\ sound \in BOOLEAN /\ closed \in BOOLEAN

\* A program whose Battery_Init has succeeded and that does not call the clean-up
\* never uses a freed handle or NULL, whatever it opens and closes, and whatever
\* edges the task finds.  After the clean-up it may, since the pointers stay
\* (Battery.cpp:190-210), and so it may after a failure (Battery.cpp:151).
MisuseNeedsClose == misused => closed \/ ~sound

\* The dock's line stays requested, and IsMeterInDock works, until the clean-up, a
\* further Battery_Init that fails, or CloseGPIO of the same handle: the line that
\* OpenGPIO could not request is released under Battery_Init (Battery.cpp:151, 217).
DockStaysRequested ==
  [][line[Dock] \in requested /\ line'[Dock] \notin requested'
       => \/ closed' \/ battery_lock' = "held"
          \/ power[Dock] = line[Dock] /\ power'[Dock] = NULL]_vars

\* An edge of a line that is watched is read in the end, although two lines share
\* the task and their edges may come together and without end (Battery.cpp:256),
\* unless a line whose request has failed is watched with it (Battery.cpp:158, 245).
EdgesAreRead == \A h \in Handle :
  h \in event /\ h \in Watched
    ~> h \notin event \/ h \notin Watched \/ ~CanWait \/ misused
=============================================================================
