-------------------------- MODULE BatteryIOProofs --------------------------
(***************************************************************************)
(* What Battery.cpp reads.  The GPIO lines, for any number of calls of     *)
(* Battery_Init and whatever the calls of the program and the edges of the *)
(* lines: what the pointers may point to, that a program without clean-up  *)
(* and without a failure never uses a freed handle, and who may take the   *)
(* dock its request.  Then the readings, for anything the kernel's files   *)
(* may hold: a label tells its value and reads as what was scanned, who    *)
(* dies, and how a failure shows.                                          *)
(***************************************************************************)
EXTENDS BatteryLines, Readings, SequenceTheorems, WellFoundedInduction, TLAPS

\* Handles of the kernel's lines this code can ask for.
HandleInv == /\ requested \subseteq Handle
             /\ \A h \in requested : LineOf(h) \in Kernel
             /\ \A l \in Lines : power[l] \in Handle \cup {NULL}

\* Which port and pin each pointer is for: the power lines are both of the
\* dock's port.
PortInv ==
  \A l \in Lines : /\ chip[l] # NoChip => chip[l][1] = l
                   /\ line[l] # NULL => LineOf(line[l]) = <<l, l>>
                   /\ power[l] # NULL => LineOf(power[l]) = <<Dock, l>>

\* Before the first Battery_Init there is no chip to get a line from.
EarlyInv == inits = 0 => alive = {} /\ \A l \in Lines : power[l] = NULL

\* As long as nothing failed and nothing was cleaned up, every pointer that is
\* set is good, and those Battery_Init makes are set.
PointerInv ==
  sound /\ ~closed => /\ ~misused
                      /\ \A l \in Lines : /\ chip[l] \in alive
                                          /\ Usable(line[l])
                                          /\ power[l] # NULL => Usable(power[l])

IInv == LinesTypeOK /\ HandleInv /\ PortInv /\ EarlyInv /\ PointerInv

-----------------------------------------------------------------------------
\* The names are different, and nothing that is open is NoChip.
LEMMA Distinct ==
  /\ Dock \in Lines /\ Charging \in Lines /\ Dock # Charging
  /\ \A l \in Lines : l = Dock \/ l = Charging
  /\ NoChip \notin Chip
  /\ NULL \notin Handle
  /\ NULL[1] = NoChip
  BY DEF Lines, Dock, Charging, NoChip, Chip, NULL, Handle

\* The kernel's lines are the three that a handle can ask for.
LEMMA KernelLines ==
  /\ \A l \in Lines : <<l, l>> \in Kernel /\ <<Dock, l>> \in Kernel
  /\ Kernel \subseteq Lines \X Lines
  BY DEF Lines, Kernel

\* The handle of a chip object.
LEMMA HandleOf ==
  ASSUME NEW c \in Chip, NEW l \in Lines
  PROVE  /\ <<c, l>> \in Handle
         /\ <<c, l>> # NULL
         /\ <<c, l>>[1] = c
         /\ LineOf(<<c, l>>) = <<c[1], l>>
  BY Distinct DEF Handle, LineOf, NULL

\* A handle that holds its line is of an open chip, so it is not NULL.
LEMMA RequestedIsHandle ==
  ASSUME LinesTypeOK, NEW h \in requested
  PROVE  h # NULL
  BY Distinct DEF LinesTypeOK, Usable

-----------------------------------------------------------------------------
LEMMA InitHolds == Init => IInv
<1> SUFFICES ASSUME Init PROVE IInv
  OBVIOUS
<1>1. LinesTypeOK
  <2>1. power \in [Lines -> Handle \cup {<<NoChip, l>> : l \in Lines}]
    BY Distinct DEF Init, NULL
  <2>2. 0 \in 0 .. MaxInits
    BY LinesAssumption
  <2>3. /\ chip \in [Lines -> Chip \cup {NoChip}]
        /\ line \in [Lines -> Handle \cup {NULL}]
        /\ level \in [Kernel -> 0 .. 1]
        /\ Is \in [Lines -> {-1, 0, 1}]
    BY DEF Init
  <2> QED  BY <2>1, <2>2, <2>3 DEF Init, LinesTypeOK
<1>2. HandleInv /\ PortInv /\ EarlyInv /\ PointerInv
  BY DEF Init, HandleInv, PortInv, EarlyInv, PointerInv
<1> QED  BY <1>1, <1>2 DEF IInv

-----------------------------------------------------------------------------
\* What a call of Battery_Init leaves in the pointers: a new object, what was
\* there, or nothing; and with all six calls done, everything new.
LEMMA InitEffect ==
  ASSUME IInv, NEW n \in 0 .. 6, Battery_Init(n)
  PROVE  /\ inits' = inits + 1 /\ inits' \in 1 .. MaxInits
         /\ alive \subseteq alive' /\ alive' \subseteq Chip
         /\ requested \subseteq requested'
         /\ \A l \in Lines :
              LET object == <<l, inits + 1>>
              IN /\ object \in Chip
                 /\ \/ chip'[l] = object /\ object \in alive'
                    \/ chip'[l] = chip[l]
                    \/ chip'[l] = NoChip
                 /\ line'[l] \in {<<object, l>>, line[l], NULL}
         /\ \A h \in requested' \ requested :
              \E l \in Lines : h = <<<<l, inits + 1>>, l>> /\ h[1] \in alive'
         /\ n = 6 => \A l \in Lines : /\ chip'[l] \in alive'
                                      /\ line'[l] \in requested'
                                      /\ Usable(line[l])'
         /\ chip' \in [Lines -> Chip \cup {NoChip}]
         /\ line' \in [Lines -> Handle \cup {NULL}]
<1> USE DEF IInv
<1> DEFINE object(l) == <<l, inits + 1>>
           handle(l) == <<object(l), l>>
           done(l)   == IF l = Dock THEN n ELSE n - 3
<1>1. /\ inits < MaxInits
      /\ inits' = inits + 1
      /\ alive' = alive \cup {object(l) : l \in {m \in Lines : done(m) >= 1}}
      /\ chip' = [l \in Lines |-> IF done(l) >= 1 THEN object(l)
                                  ELSE IF done(l) = 0 THEN NoChip ELSE chip[l]]
      /\ line' = [l \in Lines |-> IF done(l) >= 2 THEN handle(l)
                                  ELSE IF done(l) = 1 THEN NULL ELSE line[l]]
      /\ requested' = requested \cup {handle(l) : l \in {m \in Lines : done(m) >= 3}}
  BY DEF Battery_Init
<1>2. inits \in 0 .. MaxInits /\ inits' \in 1 .. MaxInits
  BY <1>1, LinesAssumption DEF LinesTypeOK
<1>3. \A l \in Lines : object(l) \in Chip
  BY <1>1, <1>2 DEF Chip
<1>4. \A l \in Lines : done(l) \in Int
  OBVIOUS
<1>5. \A l \in Lines : handle(l) \in Handle /\ handle(l)[1] = object(l)
  BY <1>3 DEF Handle
<1> HIDE DEF object, handle, done
<1>6. alive \subseteq alive' /\ alive' \subseteq Chip
  BY <1>1, <1>3 DEF LinesTypeOK
<1>7. ASSUME NEW l \in Lines
      PROVE  /\ \/ chip'[l] = object(l) /\ object(l) \in alive'
                \/ chip'[l] = chip[l]
                \/ chip'[l] = NoChip
             /\ chip'[l] \in Chip \cup {NoChip}
             /\ line'[l] \in {handle(l), line[l], NULL}
             /\ line'[l] \in Handle \cup {NULL}
  BY <1>1, <1>3, <1>5 DEF LinesTypeOK
<1>8. ASSUME NEW h \in requested' \ requested
      PROVE  \E l \in Lines : h = handle(l) /\ h[1] \in alive'
  <2>1. PICK l \in Lines : done(l) >= 3 /\ h = handle(l)
    BY <1>1, <1>8
  <2>2. object(l) \in alive'
    BY <1>1, <1>4, <2>1
  <2> QED  BY <1>5, <2>1, <2>2
<1>9. ASSUME n = 6, NEW l \in Lines
      PROVE  /\ chip'[l] \in alive'
             /\ line'[l] \in requested'
             /\ Usable(line[l])'
  <2>1. done(l) >= 3
    BY <1>9 DEF done
  <2>2. chip'[l] = object(l) /\ object(l) \in alive'
    BY <1>1, <1>4, <2>1
  <2>3. line'[l] = handle(l) /\ handle(l) \in requested'
    BY <1>1, <1>4, <2>1
  <2> QED  BY <1>5, <2>2, <2>3 DEF Usable
<1>10. /\ chip' \in [Lines -> Chip \cup {NoChip}]
       /\ line' \in [Lines -> Handle \cup {NULL}]
  BY <1>1, <1>7
<1>11. requested \subseteq requested'
  BY <1>1
<1> QED
  BY <1>1, <1>2, <1>3, <1>6, <1>7, <1>8, <1>9, <1>10, <1>11 DEF object, handle

LEMMA InitStep ==
  ASSUME IInv, NEW n \in 0 .. 6, Battery_Init(n)
  PROVE  IInv'
<1> USE DEF IInv
<1>1. /\ UNCHANGED <<power, level, event, GPIOs, Is, misused, closed>>
      /\ ~misused
      /\ battery_lock' \in {"free", "held"}
      /\ sound' = (n = 6 /\ (inits = 0 \/ sound))
  BY DEF Battery_Init, AllDone
<1>2. LinesTypeOK'
  <2>1. \A h \in requested' : Usable(h)'
    BY InitEffect DEF LinesTypeOK, Usable
  <2>2. event' \subseteq requested' /\ inits' \in 0 .. MaxInits
    BY <1>1, InitEffect, LinesAssumption DEF LinesTypeOK
  <2> QED  BY <1>1, <2>1, <2>2, InitEffect DEF LinesTypeOK
<1>3. ASSUME NEW h \in requested'
      PROVE  h \in Handle /\ LineOf(h) \in Kernel
  <2>1. CASE h \in requested
    BY <2>1 DEF HandleInv
  <2>2. CASE h \notin requested
    <3>1. PICK l \in Lines : h = <<<<l, inits + 1>>, l>> /\ <<l, inits + 1>> \in Chip
      BY <2>2, InitEffect
    <3>2. LineOf(h) = <<l, l>> /\ h \in Handle
      BY <3>1 DEF LineOf, Handle
    <3> QED  BY <3>2, KernelLines
  <2> QED  BY <2>1, <2>2
<1>4. HandleInv'
  BY <1>1, <1>3 DEF HandleInv, LineOf
<1>5. PortInv'
  <2> SUFFICES ASSUME NEW l \in Lines
               PROVE  /\ chip'[l] # NoChip => chip'[l][1] = l
                      /\ line'[l] # NULL => LineOf(line'[l]) = <<l, l>>
                      /\ power'[l] # NULL => LineOf(power'[l]) = <<Dock, l>>
    BY DEF PortInv, LineOf
  <2>1. chip'[l] \in {<<l, inits + 1>>, chip[l], NoChip}
    BY InitEffect
  <2>2. line'[l] \in {<<<<l, inits + 1>>, l>>, line[l], NULL}
    BY InitEffect
  <2>3. <<l, inits + 1>>[1] = l /\ LineOf(<<<<l, inits + 1>>, l>>) = <<l, l>>
    BY DEF LineOf
  <2> QED  BY <1>1, <2>1, <2>2, <2>3 DEF PortInv
<1>6. EarlyInv'
  BY InitEffect DEF EarlyInv
<1>7. PointerInv'
  <2> SUFFICES ASSUME sound', ~closed'
               PROVE  /\ ~misused'
                      /\ \A l \in Lines : /\ chip'[l] \in alive'
                                          /\ Usable(line[l])'
                                          /\ power'[l] # NULL => Usable(power[l])'
    BY DEF PointerInv
  <2>1. n = 6 /\ (inits = 0 \/ sound) /\ ~closed
    BY <1>1
  <2>2. \A l \in Lines : chip'[l] \in alive' /\ Usable(line[l])'
    BY <2>1, InitEffect
  <2>3. ASSUME NEW l \in Lines, power[l] # NULL PROVE Usable(power[l])'
    BY <1>1, <2>1, <2>3, InitEffect DEF EarlyInv, PointerInv, Usable
  <2> QED  BY <1>1, <2>2, <2>3
<1> QED  BY <1>2, <1>4, <1>5, <1>6, <1>7

-----------------------------------------------------------------------------
\* The clean-up: the pointers to the lines stay.
LEMMA CleanupStep ==
  ASSUME IInv, RunBatteryMonitorCleanup
  PROVE  IInv'
<1> USE DEF IInv
<1>1. /\ UNCHANGED <<battery_lock, inits, line, power, level, GPIOs, Is, sound>>
      /\ closed' = TRUE /\ misused' \in BOOLEAN
      /\ alive' = alive \ {chip[l] : l \in Lines}
      /\ chip' = [l \in Lines |-> NoChip]
  BY DEF RunBatteryMonitorCleanup, CloseGPIOs
<1>2. /\ requested' \subseteq requested
      /\ \A h \in requested' : h[1] \notin {chip[l] : l \in Lines}
      /\ event' \subseteq requested'
  BY DEF RunBatteryMonitorCleanup, CloseGPIOs, Drops, LinesTypeOK
<1>3. LinesTypeOK'
  <2>1. \A h \in requested' : Usable(h)'
    BY <1>1, <1>2 DEF LinesTypeOK, Usable
  <2>2. chip' \in [Lines -> Chip \cup {NoChip}]
    BY <1>1
  <2> QED  BY <1>1, <1>2, <2>1, <2>2 DEF LinesTypeOK
<1>4. HandleInv'
  BY <1>1, <1>2 DEF HandleInv, LineOf
<1>5. PortInv'
  BY <1>1 DEF PortInv, LineOf
<1>6. EarlyInv' /\ PointerInv'
  BY <1>1 DEF EarlyInv, PointerInv
<1> QED  BY <1>3, <1>4, <1>5, <1>6

\* The handle OpenGPIO works on is of the dock's port, and good as long as
\* nothing failed.
LEMMA OpenedHandle ==
  ASSUME IInv, NEW l \in Lines
  PROVE  LET h == IF power[l] # NULL THEN power[l] ELSE <<ChipFor(l), l>>
         IN /\ Usable(h) => h \in Handle /\ h # NULL /\ LineOf(h) = <<Dock, l>>
                            /\ inits # 0
            /\ sound /\ ~closed => Usable(h)
<1> USE DEF IInv
<1> DEFINE h == IF power[l] # NULL THEN power[l] ELSE <<ChipFor(l), l>>
<1>1. CASE power[l] # NULL
  BY <1>1 DEF HandleInv, PortInv, EarlyInv, PointerInv
<1>2. CASE power[l] = NULL
  <2>1. h = <<chip[Dock], l>> /\ h[1] = chip[Dock] /\ LineOf(h) = <<chip[Dock][1], l>>
    BY <1>2 DEF ChipFor, LineOf
  <2>2. Dock \in Lines /\ alive \subseteq Chip
    BY Distinct DEF LinesTypeOK
  <2>3. Usable(h) <=> chip[Dock] \in alive
    BY <2>1 DEF Usable
  <2>4. sound /\ ~closed => Usable(h)
    BY <2>2, <2>3 DEF PointerInv
  <2>5. ASSUME Usable(h)
        PROVE  h \in Handle /\ h # NULL /\ LineOf(h) = <<Dock, l>> /\ inits # 0
    <3>1. chip[Dock] \in Chip /\ chip[Dock] # NoChip
      BY <2>2, <2>3, <2>5, Distinct
    <3>2. chip[Dock][1] = Dock
      BY <2>2, <3>1 DEF PortInv
    <3>3. inits # 0
      BY <2>3, <2>5 DEF EarlyInv
    <3> QED  BY <2>1, <3>1, <3>2, <3>3, HandleOf
  <2> QED  BY <2>4, <2>5
<1> HIDE DEF h
<1> QED  BY <1>1, <1>2 DEF h

LEMMA OpenStep ==
  ASSUME IInv, NEW l \in Lines, OpenGPIO(l)
  PROVE  IInv'
<1> USE DEF IInv
<1> DEFINE h == IF power[l] # NULL THEN power[l] ELSE <<ChipFor(l), l>>
<1>1. /\ UNCHANGED <<battery_lock, inits, alive, chip, line, level, GPIOs, Is, sound, closed>>
      /\ ~misused
      /\ misused' = ~Usable(h)
      /\ event' = event
      /\ \/ Usable(h) /\ power' = [power EXCEPT ![l] = h]
         \/ power' = power
      /\ \/ requested' = requested
         \/ Usable(h) /\ requested' = requested \cup {h}
  <2>1. /\ UNCHANGED <<battery_lock, inits, alive, chip, line, level, GPIOs, Is, historyVars>>
        /\ ~misused
        /\ misused' = ~Usable(h)
        /\ \/ /\ Usable(h)
              /\ power' = [power EXCEPT ![l] = h]
              /\ \/ Kept(h)
                 \/ requested' = requested \cup {h} /\ UNCHANGED event
           \/ UNCHANGED <<power, requested, event>>
    BY DEF OpenGPIO
  <2> QED  BY <2>1 DEF Kept, historyVars
<1>2. /\ Usable(h) => h \in Handle /\ h # NULL /\ LineOf(h) = <<Dock, l>>
                      /\ inits # 0
      /\ sound /\ ~closed => Usable(h)
  BY OpenedHandle
<1> HIDE DEF h
<1>3. \A g \in requested' : g \in requested \/ (g = h /\ Usable(h))
  BY <1>1
<1>4. LinesTypeOK'
  <2>1. Usable(h) => power' \in [Lines -> Handle \cup {<<NoChip, m>> : m \in Lines}]
    BY <1>1, <1>2 DEF LinesTypeOK
  <2>2. \A g \in requested' : Usable(g)'
    BY <1>1, <1>3 DEF LinesTypeOK, Usable
  <2> QED  BY <1>1, <2>1, <2>2 DEF LinesTypeOK, Usable
<1>5. \A m \in Lines : power'[m] = power[m] \/ (m = l /\ power'[m] = h /\ Usable(h))
  BY <1>1 DEF LinesTypeOK
<1>6. HandleInv'
  <2>1. \A g \in requested' : g \in Handle /\ LineOf(g) \in Kernel
    BY <1>2, <1>3, KernelLines DEF HandleInv
  <2>2. \A m \in Lines : power'[m] \in Handle \cup {NULL}
    BY <1>2, <1>5 DEF HandleInv
  <2> QED  BY <2>1, <2>2 DEF HandleInv, LineOf
<1>7. PortInv'
  <2>1. \A m \in Lines : power'[m] # NULL => LineOf(power'[m]) = <<Dock, m>>
    BY <1>2, <1>5 DEF PortInv
  <2> QED  BY <1>1, <2>1 DEF PortInv, LineOf
<1>8. EarlyInv'
  BY <1>1, <1>2, <1>5 DEF EarlyInv
<1>9. PointerInv'
  BY <1>1, <1>2, <1>5 DEF PointerInv, Usable
<1> QED  BY <1>4, <1>6, <1>7, <1>8, <1>9

LEMMA CloseStep ==
  ASSUME IInv, NEW l \in Lines, CloseGPIO(l)
  PROVE  IInv'
<1> USE DEF IInv
<1>1. /\ UNCHANGED <<battery_lock, inits, alive, chip, line, level, GPIOs, Is, sound, closed>>
      /\ power[l] # NULL
      /\ misused' = ~Usable(power[l])
      /\ power' = [power EXCEPT ![l] = NULL]
      /\ requested' \subseteq requested
      /\ event' \subseteq requested'
  BY DEF CloseGPIO, historyVars, Drops, LinesTypeOK
<1>2. \A m \in Lines : power'[m] = power[m] \/ power'[m] = NULL
  BY <1>1 DEF LinesTypeOK
<1>3. LinesTypeOK'
  <2>1. power' \in [Lines -> Handle \cup {<<NoChip, m>> : m \in Lines}]
    <3>1. NULL \in {<<NoChip, m>> : m \in Lines}
      BY Distinct DEF NULL
    <3> QED  BY <1>1, <3>1 DEF LinesTypeOK
  <2>2. \A g \in requested' : Usable(g)'
    BY <1>1 DEF LinesTypeOK, Usable
  <2> QED  BY <1>1, <2>1, <2>2 DEF LinesTypeOK, Usable
<1>4. HandleInv'
  BY <1>1, <1>2 DEF HandleInv, LineOf
<1>5. PortInv'
  BY <1>1, <1>2 DEF PortInv, LineOf
<1>6. EarlyInv'
  <2> SUFFICES ASSUME inits = 0 PROVE alive = {} /\ \A m \in Lines : power'[m] = NULL
    BY <1>1 DEF EarlyInv
  <2>1. \A m \in Lines : power[m] = NULL
    BY DEF EarlyInv
  <2> QED  BY <1>2, <2>1 DEF EarlyInv
<1>7. PointerInv'
  <2> SUFFICES ASSUME sound, ~closed
               PROVE  /\ ~misused'
                      /\ \A m \in Lines : /\ chip[m] \in alive
                                          /\ Usable(line[m])
                                          /\ power'[m] # NULL => Usable(power'[m])
    BY <1>1 DEF PointerInv, Usable
  <2>1. \A m \in Lines : /\ chip[m] \in alive
                         /\ Usable(line[m])
                         /\ power[m] # NULL => Usable(power[m])
    BY DEF PointerInv
  <2>2. ~misused'
    BY <1>1, <2>1
  <2> QED  BY <1>2, <2>1, <2>2
<1> QED  BY <1>3, <1>4, <1>5, <1>6, <1>7

\* The steps that leave chips, lines and requests alone: a read, a level, the
\* task.
LEMMA OtherStep ==
  ASSUME IInv,
         UNCHANGED <<battery_lock, inits, handleVars, historyVars>>,
         sound /\ ~closed => ~misused',
         event' \subseteq requested,
         level' \in [Kernel -> 0 .. 1],
         GPIOs' \subseteq Lines,
         Is' \in [Lines -> {-1, 0, 1}],
         misused' \in BOOLEAN
  PROVE  IInv'
<1> USE DEF IInv
<1>1. UNCHANGED <<battery_lock, inits, alive, chip, line, power, requested, sound, closed>>
  BY DEF handleVars, historyVars
<1>2. LinesTypeOK'
  BY <1>1 DEF LinesTypeOK, Usable
<1>3. HandleInv' /\ PortInv' /\ EarlyInv'
  BY <1>1 DEF HandleInv, PortInv, EarlyInv, LineOf
<1>4. PointerInv'
  BY <1>1 DEF PointerInv, Usable
<1> QED  BY <1>2, <1>3, <1>4

\* The value of the line that IsMeterInDock asks is a level of the kernel's.
LEMMA ValuesAreLevels ==
  ASSUME IInv, NEW l \in Lines, NEW v \in Values(line[l])
  PROVE  Is_(v) \in {-1, 0, 1}
<1> USE DEF IInv
<1>1. CASE v = -1
  BY <1>1 DEF Is_
<1>2. CASE v # -1
  <2>1. line[l] \in requested /\ v = level[LineOf(line[l])]
    BY <1>2 DEF Values
  <2>2. LineOf(line[l]) \in Kernel
    BY <2>1 DEF HandleInv
  <2>3. v \in 0 .. 1
    BY <2>1, <2>2 DEF LinesTypeOK
  <2> QED  BY <2>3 DEF Is_
<1> QED  BY <1>1, <1>2

LEMMA MonitorStep ==
  ASSUME IInv, MonitorForGPIOEvent
  PROVE  IInv'
<1>1. /\ ~misused
      /\ UNCHANGED <<battery_lock, inits, handleVars, level, Is, historyVars>>
      /\ \/ /\ GPIOs' = {h[2] : h \in Ready}
            /\ event' = event \ Ready
            /\ UNCHANGED misused
         \/ /\ \E h \in Watched : ~Usable(h)
            /\ misused' = TRUE
            /\ UNCHANGED <<GPIOs, event>>
  BY DEF MonitorForGPIOEvent
<1>2. \A h \in Ready : h[2] \in Lines
  BY DEF Ready, IInv, LinesTypeOK, HandleInv, Handle
<1>3. sound /\ ~closed => \A h \in Watched : Usable(h)
  BY DEF IInv, PointerInv, Watched
<1>4. event \subseteq requested /\ GPIOs \subseteq Lines
  BY DEF IInv, LinesTypeOK
<1>5. /\ sound /\ ~closed => ~misused'
      /\ event' \subseteq requested
      /\ GPIOs' \subseteq Lines
      /\ misused' \in BOOLEAN
  <2>1. CASE GPIOs' = {h[2] : h \in Ready} /\ event' = event \ Ready /\ UNCHANGED misused
    <3>1. GPIOs' \subseteq Lines
      BY <1>2, <2>1
    <3>2. event' \subseteq requested
      BY <1>4, <2>1
    <3>3. ~misused'
      BY <1>1, <2>1
    <3>4. misused' \in BOOLEAN
      BY <2>1 DEF IInv, LinesTypeOK
    <3> QED  BY <3>1, <3>2, <3>3, <3>4
  <2>2. CASE /\ \E h \in Watched : ~Usable(h)
             /\ misused' = TRUE
             /\ UNCHANGED <<GPIOs, event>>
    BY <1>3, <1>4, <2>2
  <2> QED  BY <1>1, <2>1, <2>2
<1>6. level' \in [Kernel -> 0 .. 1] /\ Is' \in [Lines -> {-1, 0, 1}]
  BY <1>1 DEF IInv, LinesTypeOK
<1> QED  BY <1>1, <1>5, <1>6, OtherStep

LEMMA TaskLoopStep ==
  ASSUME IInv, BatteryTaskLoop
  PROVE  IInv'
<1>1. /\ ~misused
      /\ UNCHANGED <<battery_lock, inits, handleVars, level, event, historyVars>>
      /\ GPIOs' = {}
  BY DEF BatteryTaskLoop
<1>2. event \subseteq requested /\ level \in [Kernel -> 0 .. 1] /\ Is \in [Lines -> {-1, 0, 1}]
  BY DEF IInv, LinesTypeOK
<1>3. /\ Is' \in [Lines -> {-1, 0, 1}]
      /\ misused' \in BOOLEAN
      /\ sound /\ ~closed => ~misused'
  <2>1. CASE GPIOs = Lines /\ UNCHANGED <<Is, misused>>
    BY <1>1, <1>2, <2>1 DEF IInv, LinesTypeOK
  <2>2. ASSUME NEW l \in Lines, NEW v \in Values(line[l]),
               misused' = ~Usable(line[l]), Is' = [Is EXCEPT ![l] = Is_(v)]
        PROVE  /\ Is' \in [Lines -> {-1, 0, 1}]
               /\ misused' \in BOOLEAN
               /\ sound /\ ~closed => ~misused'
    <3>1. Is_(v) \in {-1, 0, 1}
      BY ValuesAreLevels
    <3>2. sound /\ ~closed => Usable(line[l])
      BY DEF IInv, PointerInv
    <3> QED  BY <1>2, <2>2, <3>1, <3>2
  <2> QED  BY <2>1, <2>2 DEF BatteryTaskLoop
<1> QED  BY <1>1, <1>2, <1>3, OtherStep

-----------------------------------------------------------------------------
LEMMA InductiveStep == IInv /\ [Next]_vars => IInv'
<1> SUFFICES ASSUME IInv, [Next]_vars PROVE IInv'
  OBVIOUS
<1>1. ASSUME NEW n \in 0 .. 6, Battery_Init(n) PROVE IInv'
  BY <1>1, InitStep
<1>2. CASE RunBatteryMonitorCleanup
  BY <1>2, CleanupStep
<1>3. ASSUME NEW l \in Lines, OpenGPIO(l) PROVE IInv'
  BY <1>3, OpenStep
<1>4. ASSUME NEW l \in Lines, CloseGPIO(l) PROVE IInv'
  BY <1>4, CloseStep
<1>5. /\ event \subseteq requested
      /\ level \in [Kernel -> 0 .. 1]
      /\ GPIOs \subseteq Lines
      /\ Is \in [Lines -> {-1, 0, 1}]
      /\ misused \in BOOLEAN
      /\ sound /\ ~closed => ~misused
  BY DEF IInv, LinesTypeOK, PointerInv
<1>6. ASSUME NEW l \in Lines, ReadGPIO(l) PROVE IInv'
  <2>1. /\ UNCHANGED <<battery_lock, inits, handleVars, level, event, GPIOs, Is, historyVars>>
        /\ power[l] # NULL
        /\ misused' = ~Usable(power[l])
    BY <1>6 DEF ReadGPIO
  <2>2. sound /\ ~closed => Usable(power[l])
    BY <2>1 DEF IInv, PointerInv
  <2> QED  BY <1>5, <2>1, <2>2, OtherStep
<1>7. ASSUME NEW k \in Kernel, LevelChanges(k) PROVE IInv'
  <2>1. /\ UNCHANGED <<battery_lock, inits, handleVars, GPIOs, Is, misused, historyVars>>
        /\ level' = [level EXCEPT ![k] = 1 - @]
        /\ event' \subseteq requested
    BY <1>5, <1>7 DEF LevelChanges
  <2>2. level' \in [Kernel -> 0 .. 1]
    BY <1>5, <2>1
  <2> QED  BY <1>5, <2>1, <2>2, OtherStep
<1>8. CASE TaskStep
  BY <1>8, MonitorStep, TaskLoopStep DEF TaskStep
<1>9. CASE UNCHANGED vars
  BY <1>5, <1>9, OtherStep DEF vars
<1> QED  BY <1>1, <1>2, <1>3, <1>4, <1>6, <1>7, <1>8, <1>9 DEF Next

LEMMA IInvHolds == Spec => []IInv
  BY InitHolds, InductiveStep, PTL DEF Spec

\* Only requested lines have edges to be read, a request is never left on a chip
\* that was closed, and neither IsInDock nor IsCharging is ever 0, the value
\* that core.cpp:317 takes for a meter in the dock (Battery.cpp:304-318).
THEOREM LinesTypeCorrect == Spec => []LinesTypeOK
<1>1. IInv => LinesTypeOK
  BY DEF IInv
<1> QED  BY <1>1, IInvHolds, PTL

\* A freed handle or NULL is used only after the clean-up or after a call of
\* Battery_Init that failed, whatever else is called and however often
\* (Battery.cpp:79-149, 190-210).
THEOREM MisuseExplained == Spec => []MisuseNeedsClose
<1>1. IInv => MisuseNeedsClose
  BY DEF IInv, PointerInv, MisuseNeedsClose
<1> QED  BY <1>1, IInvHolds, PTL

\* The dock's line loses its request only to the clean-up, to a Battery_Init
\* that fails, and to CloseGPIO of the handle that Battery_Init and OpenGPIO
\* share (Battery.cpp:79-149, 190-220).
THEOREM DockLineKept == Spec => DockStaysRequested
<1> DEFINE Kept1 == line[Dock] \in requested /\ line'[Dock] \notin requested'
                      => \/ closed' \/ battery_lock' = "held"
                         \/ power[Dock] = line[Dock] /\ power'[Dock] = NULL
<1>1. IInv /\ [Next]_vars => [Kept1]_vars
  <2> SUFFICES ASSUME IInv, [Next]_vars, line[Dock] \in requested,
                      line'[Dock] \notin requested'
               PROVE  \/ closed' \/ battery_lock' = "held"
                      \/ power[Dock] = line[Dock] /\ power'[Dock] = NULL
    OBVIOUS
  <2>1. ASSUME NEW n \in 0 .. 6, Battery_Init(n) PROVE battery_lock' = "held"
    <3>1. n # 6
      BY <2>1, InitEffect, Distinct
    <3> QED  BY <2>1, <3>1 DEF Battery_Init, AllDone
  <2>2. CASE RunBatteryMonitorCleanup
    BY <2>2 DEF RunBatteryMonitorCleanup
  <2>3. ASSUME NEW l \in Lines, OpenGPIO(l) PROVE FALSE
    BY <2>3 DEF OpenGPIO, Kept
  <2>4. ASSUME NEW l \in Lines, CloseGPIO(l)
        PROVE  power[Dock] = line[Dock] /\ power'[Dock] = NULL
    <3>1. /\ requested' = requested \ {power[l]}
          /\ power[l] # NULL
          /\ power' = [power EXCEPT ![l] = NULL]
          /\ line' = line
      BY <2>4 DEF CloseGPIO, Drops
    <3>2. line[Dock] = power[l]
      BY <3>1
    <3>3. LineOf(line[Dock]) = <<Dock, Dock>> /\ LineOf(power[l]) = <<Dock, l>>
      BY <3>1, <3>2, Distinct DEF IInv, PortInv
    <3>4. l = Dock
      BY <3>2, <3>3
    <3> QED  BY <3>1, <3>2, <3>4, Distinct DEF IInv, LinesTypeOK
  <2>5. ASSUME NEW l \in Lines, ReadGPIO(l) PROVE FALSE
    BY <2>5 DEF ReadGPIO, handleVars
  <2>6. ASSUME NEW k \in Kernel, LevelChanges(k) PROVE FALSE
    BY <2>6 DEF LevelChanges, handleVars
  <2>7. CASE TaskStep
    BY <2>7 DEF TaskStep, MonitorForGPIOEvent, BatteryTaskLoop, handleVars
  <2>8. CASE UNCHANGED vars
    BY <2>8 DEF vars, handleVars
  <2> QED  BY <2>1, <2>2, <2>3, <2>4, <2>5, <2>6, <2>7, <2>8 DEF Next
<1> QED  BY <1>1, IInvHolds, PTL DEF Spec, DockStaysRequested

-----------------------------------------------------------------------------
\* The readings, for anything the kernel's files may hold.

Power(j) == 10 ^ j

\* The powers of ten up to the longest numeral.
LEMMA Powers ==
  /\ Power(0) = 1 /\ Power(1) = 10 /\ Power(2) = 100 /\ Power(3) = 1000
  /\ Power(4) = 10000 /\ Power(5) = 100000 /\ Power(6) = 1000000
  /\ Power(7) = 10000000 /\ Power(8) = 100000000 /\ Power(9) = 1000000000
  BY SMT DEF Power

LEMMA PowersGrow ==
  /\ \A j \in 0 .. 9 : Power(j) \in Nat \ {0}
  /\ \A i \in 0 .. 9 : \A j \in i .. 9 : Power(i) <= Power(j)
<1>1. ASSUME NEW j \in 0 .. 9
      PROVE  j \in {0, 1, 2, 3, 4, 5, 6, 7, 8, 9}
  BY SMT
<1>2. ASSUME NEW j \in 0 .. 9 PROVE Power(j) \in Nat \ {0}
  BY <1>1, Powers, SMT
<1>3. ASSUME NEW i \in 0 .. 9, NEW j \in i .. 9 PROVE Power(i) <= Power(j)
  <2>1. j \in 0 .. 9
    OBVIOUS
  <2> QED  BY <1>1, <2>1, Powers, SMT
<1> QED  BY <1>2, <1>3

\* The numbers of nine digits.
NineDigit == {n \in Nat : n < Power(9)}

\* Every number of nine digits has a width: the least w with n < 10^w.
LEMMA WidthIsDigits ==
  ASSUME NEW n \in NineDigit
  PROVE  /\ Width(n) \in 1 .. 9
         /\ n < Power(Width(n))
         /\ Width(n) = 1 \/ n >= Power(Width(n) - 1)
<1> DEFINE P(w) == n < Power(w) /\ (w = 1 \/ n >= Power(w - 1))
<1>1. n \in Nat /\ n < Power(9)
  BY DEF NineDigit
<1>2. \E w \in 1 .. 9 : P(w)
  <2>1. CASE n < Power(1)
    BY <2>1
  <2>2. ASSUME NEW w \in 1 .. 8, n >= Power(w), n < Power(w + 1)
        PROVE  \E u \in 1 .. 9 : P(u)
    <3>1. w + 1 \in 1 .. 9 /\ (w + 1) - 1 = w
      OBVIOUS
    <3>2. P(w + 1)
      BY <2>2, <3>1
    <3> HIDE DEF P
    <3> QED  BY <3>1, <3>2
  <2> QED  BY <1>1, <2>1, <2>2, Powers, SMT
<1>3. Width(n) = CHOOSE w \in 1 .. 9 : P(w)
  BY DEF Width, Power
<1> HIDE DEF P
<1>4. Width(n) \in 1 .. 9 /\ P(Width(n))
  BY <1>2, <1>3
<1> QED  BY <1>4 DEF P

Digit == 0 .. 9

\* A numeral is a sequence of digits, its last one the lowest.
LEMMA NumeralDigits ==
  ASSUME NEW n \in NineDigit
  PROVE  /\ Numeral(n) \in Seq(Digit)
         /\ Len(Numeral(n)) = Width(n)
         /\ \A j \in 0 .. Width(n) - 1 :
              Numeral(n)[Width(n) - j] = (n \div Power(j)) % 10
<1> DEFINE w == Width(n)
           d(i) == (n \div Power(w - i)) % 10
<1>1. w \in 1 .. 9 /\ n \in Nat
  BY WidthIsDigits DEF NineDigit
<1>2. Numeral(n) = [i \in 1 .. w |-> d(i)]
  BY DEF Numeral, Power
<1> HIDE DEF w
<1>3. ASSUME NEW i \in 1 .. w PROVE d(i) \in Digit
  <2>1. w - i \in 0 .. 9
    BY <1>1
  <2>2. Power(w - i) \in Nat \ {0}
    BY <2>1, PowersGrow
  <2>3. n \div Power(w - i) \in Nat
    BY <1>1, <2>2
  <2> QED  BY <2>3 DEF Digit
<1>4. ASSUME NEW j \in 0 .. w - 1 PROVE w - j \in 1 .. w /\ w - (w - j) = j
  BY <1>1
<1> HIDE DEF d
<1>5. Numeral(n) \in [1 .. w -> Digit]
  BY <1>2, <1>3
<1>6. Numeral(n) \in Seq(Digit) /\ Len(Numeral(n)) = w
  BY <1>1, <1>2, <1>5
<1>7. ASSUME NEW j \in 0 .. w - 1
      PROVE  Numeral(n)[w - j] = (n \div Power(j)) % 10
  BY <1>2, <1>4 DEF d
<1> QED  BY <1>6, <1>7 DEF w

\* What is left above a digit, and the digit, make what is left with it.
LEMMA DigitAndRest ==
  ASSUME NEW n \in Nat, NEW j \in 0 .. 8
  PROVE  n \div Power(j) = 10 * (n \div Power(j + 1)) + ((n \div Power(j)) % 10)
<1> DEFINE Step(p, q) == n \div p = 10 * (n \div q) + ((n \div p) % 10)
<1>1. j \in {0, 1, 2, 3, 4, 5, 6, 7, 8}
  BY SMT
<1>2. /\ Step(1, 10) /\ Step(10, 100) /\ Step(100, 1000) /\ Step(1000, 10000)
      /\ Step(10000, 100000) /\ Step(100000, 1000000) /\ Step(1000000, 10000000)
      /\ Step(10000000, 100000000) /\ Step(100000000, 1000000000)
  BY SMTT(30)
<1> HIDE DEF Step
<1>3. Step(Power(j), Power(j + 1))
  BY <1>1, <1>2, Powers, SMT
<1> QED  BY <1>3 DEF Step

\* Nine steps down.
LEMMA DownToZero ==
  ASSUME NEW P, 9 \in P, \A j \in Nat : j <= 8 /\ j + 1 \in P => j \in P
  PROVE  0 \in P
  BY SMT

\* Two numbers are the same above their lowest j digits.
Agree(n, m, j) == n \div Power(j) = m \div Power(j)

\* Two numbers that show the same numeral are the same: they agree above the
\* ninth place, and so above each place below it.
LEMMA NumeralTells ==
  ASSUME NEW n \in NineDigit, NEW m \in NineDigit,
         Numeral(n) = Numeral(m)
  PROVE  n = m
<1> DEFINE w == Width(n)
<1>1. /\ w \in 1 .. 9 /\ w = Width(m)
      /\ n \in Nat /\ m \in Nat /\ n < Power(w) /\ m < Power(w)
  BY WidthIsDigits, NumeralDigits DEF NineDigit
<1>2. ASSUME NEW j \in 0 .. 9, j >= w PROVE Agree(n, m, j)
  <2>1. Power(w) <= Power(j) /\ Power(j) \in Nat \ {0} /\ Power(w) \in Nat
    BY <1>1, <1>2, PowersGrow
  <2>2. n < Power(j) /\ m < Power(j)
    BY <1>1, <2>1
  <2>3. \A x \in Nat, y \in Nat \ {0} : x < y => x \div y = 0
    BY SMT
  <2> QED  BY <1>1, <2>1, <2>2, <2>3 DEF Agree
<1>3. ASSUME NEW j \in 0 .. 8, Agree(n, m, j + 1) PROVE Agree(n, m, j)
  <2>1. CASE j >= w
    BY <1>2, <2>1
  <2>2. CASE j < w
    <3>1. j \in 0 .. w - 1
      BY <1>1, <2>2
    <3>2. (n \div Power(j)) % 10 = (m \div Power(j)) % 10
      BY <1>1, <3>1, NumeralDigits
    <3> QED  BY <1>1, <1>3, <3>2, DigitAndRest DEF Agree
  <2> QED  BY <1>1, <2>1, <2>2
<1>4. Agree(n, m, 0)
  <2> DEFINE P == {j \in 0 .. 9 : Agree(n, m, j)}
  <2>1. 9 \in P
    BY <1>1, <1>2
  <2>2. \A j \in Nat : j <= 8 /\ j + 1 \in P => j \in P
    BY <1>3
  <2> HIDE DEF P
  <2>3. 0 \in P
    BY <2>1, <2>2, DownToZero
  <2> QED  BY <2>3 DEF P
<1>5. n \div 1 = m \div 1
  BY <1>4, Powers DEF Agree
<1> QED  BY <1>1, <1>5

-----------------------------------------------------------------------------
\* What a text is made of, and the numbers of nine digits with their sign.
Symbol == 0 .. 11
Wide   == {v \in Int : -Power(9) < v /\ v < Power(9)}

LEMMA WideParts ==
  ASSUME NEW v \in Wide
  PROVE  /\ v \in Int
         /\ v < 0 => -v \in NineDigit
         /\ v >= 0 => v \in NineDigit
<1>1. Power(9) \in Int
  BY Powers, SMT
<1> HIDE DEF Power
<1> QED  BY <1>1 DEF Wide, NineDigit

\* std::to_string: a minus and the numeral, or the numeral alone, which has one
\* digit only below ten.
LEMMA StringShape ==
  ASSUME NEW v \in Wide
  PROVE  /\ to_string(v) \in Seq(Symbol)
         /\ Len(to_string(v)) \in Nat
         /\ Len(to_string(v)) >= 1
         /\ v < 0 => /\ to_string(v) = <<Minus>> \o Numeral(-v)
                     /\ to_string(v)[1] = Minus
         /\ v >= 0 => /\ to_string(v) = Numeral(v)
                      /\ to_string(v)[1] # Minus
         /\ v < 0 \/ v >= 10 => Len(to_string(v)) >= 2
<1>1. Minus \in Symbol /\ Minus \notin Digit /\ Digit \subseteq Symbol
  BY DEF Minus, Symbol, Digit
<1>2. CASE v < 0
  <2> DEFINE s == Numeral(-v)
  <2>1. -v \in NineDigit
    BY <1>2, WideParts
  <2>2. s \in Seq(Symbol) /\ Len(s) \in 1 .. 9
    <3>1. s \in Seq(Digit) /\ Len(s) \in 1 .. 9
      BY <2>1, NumeralDigits, WidthIsDigits
    <3> HIDE DEF s
    <3> QED  BY <1>1, <3>1
  <2>3. to_string(v) = <<Minus>> \o s
    BY <1>2 DEF to_string
  <2> HIDE DEF s
  <2>4. <<Minus>> \in Seq(Symbol) /\ Len(<<Minus>>) = 1
        /\ <<Minus>>[1] = Minus
    BY <1>1
  <2>5. /\ to_string(v) \in Seq(Symbol)
        /\ Len(to_string(v)) = 1 + Len(s)
        /\ to_string(v)[1] = Minus
    BY <2>2, <2>3, <2>4, ConcatProperties
  <2> QED  BY <1>2, <2>2, <2>3, <2>5, WideParts DEF s
<1>3. CASE v >= 0
  <2>1. v \in NineDigit /\ v \in Nat
    BY <1>3, WideParts DEF NineDigit
  <2>2. to_string(v) = Numeral(v)
    BY <1>3, <2>1 DEF to_string
  <2>3. Numeral(v) \in Seq(Digit) /\ Len(Numeral(v)) \in 1 .. 9
    BY <2>1, NumeralDigits, WidthIsDigits
  <2>4. Numeral(v)[1] \in Digit
    BY <2>3, ElementOfSeq
  <2>5. v >= 10 => Len(Numeral(v)) >= 2
    <3>1. Power(1) = 10
      BY Powers
    <3>2. Width(v) = 1 => v < 10
      BY <2>1, <3>1, WidthIsDigits
    <3> QED  BY <2>1, <3>2, NumeralDigits, WidthIsDigits
  <2>6. Numeral(v) \in Seq(Symbol)
    BY <1>1, <2>3
  <2> QED  BY <1>1, <1>3, <2>1, <2>2, <2>3, <2>4, <2>5, <2>6
<1> QED  BY <1>2, <1>3, WideParts

\* What follows a common first symbol is the same if the whole is.
LEMMA PrefixCancels ==
  ASSUME NEW S, NEW x, NEW s \in Seq(S), NEW t \in Seq(S), <<x>> \o s = <<x>> \o t
  PROVE  s = t
<1> DEFINE T == S \cup {x}
<1>1. s \in Seq(T) /\ t \in Seq(T) /\ <<x>> \in Seq(T) /\ Len(<<x>>) = 1
  OBVIOUS
<1>2. Len(s) \in Nat /\ Len(t) \in Nat
  BY <1>1
<1> HIDE DEF T
<1>3. /\ Len(<<x>> \o s) = 1 + Len(s)
      /\ Len(<<x>> \o t) = 1 + Len(t)
      /\ \A i \in 1 .. 1 + Len(s) : i > 1 => (<<x>> \o s)[i] = s[i - 1]
      /\ \A i \in 1 .. 1 + Len(t) : i > 1 => (<<x>> \o t)[i] = t[i - 1]
  BY <1>1, <1>2, ConcatProperties
<1>4. Len(s) = Len(t)
  BY <1>2, <1>3
<1>5. ASSUME NEW i \in 1 .. Len(s) PROVE s[i] = t[i]
  <2>1. i + 1 \in 1 .. 1 + Len(s) /\ i + 1 > 1 /\ (i + 1) - 1 = i
    BY <1>2
  <2> QED  BY <1>3, <1>4, <2>1
<1> QED  BY <1>4, <1>5, SeqEqual

\* Two numbers with the same string are the same.
LEMMA StringTells ==
  ASSUME NEW v \in Wide, NEW w \in Wide,
         to_string(v) = to_string(w)
  PROVE  v = w
<1>1. v \in Int /\ w \in Int /\ (v < 0 <=> w < 0)
  BY StringShape, WideParts
<1>2. CASE v < 0
  <2> DEFINE s == Numeral(-v)
             t == Numeral(-w)
  <2>1. -v \in NineDigit /\ -w \in NineDigit
    BY <1>1, <1>2, WideParts
  <2>2. s \in Seq(Digit) /\ t \in Seq(Digit)
    BY <2>1, NumeralDigits
  <2>3. <<Minus>> \o s = <<Minus>> \o t
    BY <1>1, <1>2, StringShape
  <2> HIDE DEF s, t
  <2>4. s = t
    BY <2>2, <2>3, PrefixCancels
  <2>5. -v = -w
    BY <2>1, <2>4, NumeralTells DEF s, t
  <2> QED  BY <1>1, <2>5
<1>3. CASE v >= 0
  <2>1. v \in NineDigit /\ w \in NineDigit
    BY <1>1, <1>3, WideParts
  <2>2. Numeral(v) = Numeral(w)
    BY <1>1, <1>3, StringShape
  <2> QED  BY <2>1, <2>2, NumeralTells
<1> QED  BY <1>1, <1>2, <1>3

\* Where the point goes, and what is left of it and right of it.
LEMMA PointedShape ==
  ASSUME NEW s \in Seq(Symbol), NEW k \in 0 .. 2, k <= Len(s)
  PROVE  /\ Pointed(s, k) \in Seq(Symbol)
         /\ Len(Pointed(s, k)) = Len(s) + 1
         /\ \A i \in 1 .. Len(s) - k : Pointed(s, k)[i] = s[i]
         /\ Pointed(s, k)[Len(s) - k + 1] = Point
         /\ \A i \in Len(s) - k + 1 .. Len(s) : Pointed(s, k)[i + 1] = s[i]
<1> DEFINE n == Len(s)
           l == SubSeq(s, 1, n - k)
           p == <<Point>>
           r == SubSeq(s, n - k + 1, n)
<1>1. n \in Nat /\ k \in Int /\ \A i \in 1 .. n : s[i] \in Symbol
  BY ElementOfSeq
<1>2. Pointed(s, k) = l \o p \o r
  <2>1. (n - k + 1) - 1 = n - k
    BY <1>1
  <2> QED  BY <2>1 DEF Pointed, InsertAt
<1>3. p \in Seq(Symbol) /\ Len(p) = 1 /\ p[1] = Point
  BY DEF Point, Symbol
<1> HIDE DEF p, n
<1>4. /\ l \in Seq(Symbol) /\ Len(l) = n - k
      /\ \A i \in 1 .. n - k : l[i] = s[i]
  <2>1. \A i \in 1 .. n - k : s[i] \in Symbol
    BY <1>1
  <2>2. /\ SubSeq(s, 1, n - k) \in Seq(Symbol)
        /\ Len(SubSeq(s, 1, n - k)) = IF 1 <= n - k THEN n - k - 1 + 1 ELSE 0
        /\ \A i \in 1 .. n - k - 1 + 1 : SubSeq(s, 1, n - k)[i] = s[1 + i - 1]
    BY <1>1, <2>1, SubSeqProperties
  <2>3. k <= n
    BY DEF n
  <2> QED  BY <1>1, <2>2, <2>3
<1>5. /\ r \in Seq(Symbol) /\ Len(r) = k
      /\ \A i \in 1 .. k : r[i] = s[n - k + i]
  <2>1. \A i \in n - k + 1 .. n : s[i] \in Symbol
    BY <1>1 DEF n
  <2>2. /\ SubSeq(s, n - k + 1, n) \in Seq(Symbol)
        /\ Len(SubSeq(s, n - k + 1, n)) = IF n - k + 1 <= n THEN n - (n - k + 1) + 1 ELSE 0
        /\ \A i \in 1 .. n - (n - k + 1) + 1 :
             SubSeq(s, n - k + 1, n)[i] = s[(n - k + 1) + i - 1]
    BY <1>1, <2>1, SubSeqProperties
  <2> QED  BY <1>1, <2>2
<1> HIDE DEF l, r
<1>6. /\ l \o p \in Seq(Symbol) /\ Len(l \o p) = n - k + 1
      /\ \A i \in 1 .. n - k : (l \o p)[i] = s[i]
      /\ (l \o p)[n - k + 1] = Point
  <2>1. /\ l \o p \in Seq(Symbol) /\ Len(l \o p) = Len(l) + Len(p)
        /\ \A i \in 1 .. Len(l) + Len(p) :
             (l \o p)[i] = IF i <= Len(l) THEN l[i] ELSE p[i - Len(l)]
    BY <1>3, <1>4, ConcatProperties
  <2>2. Len(l) = n - k /\ Len(p) = 1 /\ n - k \in Nat /\ n - k + 1 - (n - k) = 1
    <3>1. k <= n
      BY DEF n
    <3> QED  BY <1>1, <1>3, <1>4, <3>1
  <2> QED  BY <1>3, <1>4, <2>1, <2>2
<1>7. /\ l \o p \o r \in Seq(Symbol) /\ Len(l \o p \o r) = n + 1
      /\ \A i \in 1 .. n + 1 : (l \o p \o r)[i] =
           IF i <= n - k + 1 THEN (l \o p)[i] ELSE r[i - (n - k + 1)]
  <2> DEFINE q == l \o p
  <2>1. q \in Seq(Symbol) /\ Len(q) = n - k + 1
    BY <1>6
  <2> HIDE DEF q
  <2>2. /\ q \o r \in Seq(Symbol) /\ Len(q \o r) = n + 1
        /\ \A i \in 1 .. n + 1 : (q \o r)[i] =
             IF i <= n - k + 1 THEN q[i] ELSE r[i - (n - k + 1)]
    BY <1>1, <1>5, <2>1, ConcatProperties
  <2> QED  BY <2>2 DEF q
<1>8. ASSUME NEW i \in 1 .. n - k PROVE Pointed(s, k)[i] = s[i]
  BY <1>1, <1>2, <1>6, <1>7
<1>9. ASSUME NEW i \in n - k + 1 .. n PROVE Pointed(s, k)[i + 1] = s[i]
  <2>1. /\ i + 1 \in 1 .. n + 1 /\ ~(i + 1 <= n - k + 1)
        /\ (i + 1) - (n - k + 1) \in 1 .. k
        /\ n - k + ((i + 1) - (n - k + 1)) = i
    BY <1>1, <1>9 DEF n
  <2> QED  BY <1>2, <1>5, <1>7, <2>1
<1>10. Pointed(s, k)[n - k + 1] = Point
  <2>1. n - k + 1 \in 1 .. n + 1
    BY <1>1 DEF n
  <2> QED  BY <1>2, <1>6, <1>7, <2>1
<1> QED  BY <1>2, <1>7, <1>8, <1>9, <1>10 DEF n

\* Two strings that are the same with the point are the same without.
LEMMA PointedTells ==
  ASSUME NEW s \in Seq(Symbol), NEW t \in Seq(Symbol),
         NEW k \in 0 .. 2, k <= Len(s), k <= Len(t),
         Pointed(s, k) = Pointed(t, k)
  PROVE  s = t
<1>1. Len(s) \in Nat /\ Len(t) \in Nat
  OBVIOUS
<1>2. Len(s) = Len(t)
  BY <1>1, PointedShape
<1>3. ASSUME NEW i \in 1 .. Len(s) PROVE s[i] = t[i]
  <2>1. CASE i \in 1 .. Len(s) - k
    <3>1. \A j \in 1 .. Len(s) - k : Pointed(s, k)[j] = s[j]
      BY PointedShape, Zenon
    <3>2. \A j \in 1 .. Len(t) - k : Pointed(t, k)[j] = t[j]
      BY PointedShape, Zenon
    <3> QED  BY <1>2, <2>1, <3>1, <3>2
  <2>2. CASE i \in Len(s) - k + 1 .. Len(s)
    <3>1. \A j \in Len(s) - k + 1 .. Len(s) : Pointed(s, k)[j + 1] = s[j]
      BY PointedShape, Zenon
    <3>2. \A j \in Len(t) - k + 1 .. Len(t) : Pointed(t, k)[j + 1] = t[j]
      BY PointedShape, Zenon
    <3> QED  BY <1>2, <2>2, <3>1, <3>2
  <2> QED  BY <1>1, <2>1, <2>2
<1> QED  BY <1>2, <1>3, SeqEqual

-----------------------------------------------------------------------------
LEMMA MonitorsPlaces ==
  /\ Places("voltage") = 2 /\ Places("temp") = 1
  /\ Places("current") = 0 /\ Places("level") = 0
  /\ \A m \in Numeric : m \in {"voltage", "temp", "current", "level"}
  /\ \A m \in Monitor : m = "health" \/ m \in Numeric
  /\ \A m \in Numeric : m # "health"
  BY DEF Places, Numeric, Monitor

\* The label of a number tells the number: no two values of a monitor have the
\* same text, although the point goes where the length of the numeral puts it and
\* the level is raised by one (core.cpp:171, 202, 262, 288).
THEOREM LabelTellsValue ==
  ASSUME NEW m \in Numeric, NEW v \in Int, NEW w \in Int,
         Number(m, v) \in Wide, Number(m, w) \in Wide,
         ~TooShort(m, v), ~TooShort(m, w),
         TextOf(m, v) = TextOf(m, w)
  PROVE  v = w
<1> DEFINE s == to_string(Number(m, v))
           t == to_string(Number(m, w))
           k == Places(m)
<1>1. /\ s \in Seq(Symbol) /\ t \in Seq(Symbol)
      /\ Len(s) \in Nat /\ Len(t) \in Nat
  BY StringShape
<1>2. k \in 0 .. 2 /\ m # "health" /\ (k # 0 => m # "level")
  BY MonitorsPlaces
<1>3. k <= Len(s) /\ k <= Len(t)
  BY <1>1, <1>2 DEF TooShort
<1>4. s = t
  <2>1. CASE k = 0
    BY <1>2, <2>1 DEF TextOf
  <2>2. CASE k # 0
    <3>1. Number(m, v) = v /\ Number(m, w) = w
      BY <1>2, <2>2 DEF Number
    <3>2. TextOf(m, v) = Pointed(s, k)
      BY <1>2, <2>2, <3>1 DEF TextOf
    <3>3. TextOf(m, w) = Pointed(t, k)
      BY <1>2, <2>2, <3>1 DEF TextOf
    <3> HIDE DEF s, t, k
    <3> QED  BY <1>1, <1>2, <1>3, <3>2, <3>3, PointedTells
  <2> QED  BY <2>1, <2>2
<1>5. Number(m, v) = Number(m, w)
  BY <1>4, StringTells
<1> QED  BY <1>5 DEF Number, LevelRaised

-----------------------------------------------------------------------------
\* What a text says, read from the left.

Below == {p \in Nat \X Nat : p[1] < p[2]}

\* A set of naturals has a least element.
LEMMA Least ==
  ASSUME NEW T, T \subseteq Nat, T # {}
  PROVE  \E x \in T : \A y \in T : x <= y
<1>1. IsWellFoundedOn(Below, Nat)
  BY NatLessThanWellFounded, Zenon DEF OpToRel, Below
<1>2. PICK x \in T : \A y \in T : <<y, x>> \notin Below
  BY <1>1, WFMin
<1>3. ASSUME NEW y \in T, y < x PROVE FALSE
  <2>1. <<y, x>> \in Nat \X Nat
    OBVIOUS
  <2>2. <<y, x>> \in Below
    BY <1>3, <2>1, Zenon DEF Below
  <2> QED  BY <1>2, <2>2
<1>4. \A y \in T : x \in Nat /\ y \in Nat /\ ~(y < x)
  BY <1>3
<1>5. \A y \in T : x <= y
  BY <1>4
<1> QED  BY <1>5

\* g follows the recursion of Magnitude along s.
ReadsAs(s, g) ==
  g = [i \in 0 .. Len(s) |-> IF i = 0 THEN 0
                             ELSE IF s[i] \in 0 .. 9 THEN 10 * g[i - 1] + s[i]
                             ELSE g[i - 1]]

\* Only one function does: two differ nowhere first.
LEMMA ReadOneWay ==
  ASSUME NEW s \in Seq(Symbol), NEW g, ReadsAs(s, g), NEW h, ReadsAs(s, h)
  PROVE  g = h
<1> DEFINE L == Len(s)
           T == {i \in 0 .. L : g[i] # h[i]}
<1>1. L \in Nat
  OBVIOUS
<1> HIDE DEF L
<1>2. /\ g = [i \in 0 .. L |-> g[i]] /\ h = [i \in 0 .. L |-> h[i]]
      /\ \A i \in 0 .. L : g[i] = IF i = 0 THEN 0
                                  ELSE IF s[i] \in 0 .. 9 THEN 10 * g[i - 1] + s[i]
                                  ELSE g[i - 1]
      /\ \A i \in 0 .. L : h[i] = IF i = 0 THEN 0
                                  ELSE IF s[i] \in 0 .. 9 THEN 10 * h[i - 1] + s[i]
                                  ELSE h[i - 1]
  BY DEF ReadsAs, L
<1>3. T = {}
  <2> SUFFICES ASSUME T # {} PROVE FALSE
    OBVIOUS
  <2>1. T \subseteq Nat
    BY <1>1
  <2>2. PICK i \in T : \A j \in T : i <= j
    BY <2>1, Least
  <2>3. i \in 0 .. L /\ g[i] # h[i]
    OBVIOUS
  <2>4. i # 0
    BY <1>2, <2>3
  <2>5. i - 1 \in 0 .. L /\ ~(i <= i - 1)
    BY <1>1, <2>3, <2>4
  <2>6. g[i - 1] = h[i - 1]
    BY <2>2, <2>5
  <2> QED  BY <1>2, <2>3, <2>4, <2>6
<1>4. \A i \in 0 .. L : g[i] = h[i]
  BY <1>3
<1> QED  BY <1>2, <1>4

\* So the recursion defines what it says.
LEMMA MagnitudeRead ==
  ASSUME NEW s \in Seq(Symbol), NEW g, ReadsAs(s, g)
  PROVE  Magnitude(s) = g[Len(s)]
<1> DEFINE h == CHOOSE f : ReadsAs(s, f)
<1>1. ReadsAs(s, h)
  OBVIOUS
<1>2. Magnitude(s) = h[Len(s)]
  BY DEF Magnitude, ReadsAs
<1> HIDE DEF h
<1>3. h = g
  BY <1>1, ReadOneWay
<1> QED  BY <1>2, <1>3

\* The symbols of a string: a minus in front of a negative number, else digits.
LEMMA StringSymbols ==
  ASSUME NEW v \in Wide
  PROVE  LET s == to_string(v) IN
         \A i \in 1 .. Len(s) : IF v < 0 /\ i = 1 THEN s[i] = Minus ELSE s[i] \in 0 .. 9
<1> DEFINE s == to_string(v)
<1>1. v \in Int
  BY WideParts
<1>2. CASE v >= 0
  <2>1. s \in Seq(Digit)
    BY <1>2, WideParts, StringShape, NumeralDigits
  <2>2. \A i \in 1 .. Len(s) : s[i] \in Digit
    BY <2>1, ElementOfSeq
  <2> QED  BY <1>1, <1>2, <2>2 DEF Digit
<1>3. CASE v < 0
  <2> DEFINE t == Numeral(-v)
             y == <<Minus>>
  <2>1. t \in Seq(Digit)
    BY <1>3, WideParts, NumeralDigits
  <2>2. s = y \o t
    BY <1>3, StringShape
  <2>3. \A i \in 1 .. Len(t) : t[i] \in Digit
    BY <2>1, ElementOfSeq
  <2>4. t \in Seq(Symbol) /\ Len(t) \in Nat /\ y \in Seq(Symbol) /\ Len(y) = 1 /\ y[1] = Minus
    <3>1. Digit \subseteq Symbol /\ Minus \in Symbol
      BY DEF Digit, Symbol, Minus
    <3> QED  BY <2>1, <3>1
  <2> HIDE DEF t, y, s
  <2>5. /\ Len(s) = 1 + Len(t)
        /\ \A i \in 1 .. 1 + Len(t) : s[i] = IF i <= 1 THEN y[i] ELSE t[i - 1]
    <3>1. /\ Len(y \o t) = Len(y) + Len(t)
          /\ \A i \in 1 .. Len(y) + Len(t) :
               (y \o t)[i] = IF i <= Len(y) THEN y[i] ELSE t[i - Len(y)]
      BY <2>4, ConcatProperties, Zenon
    <3> QED  BY <2>2, <2>4, <3>1
  <2>6. ASSUME NEW i \in 1 .. Len(s), i # 1 PROVE s[i] \in Digit
    <3>1. i - 1 \in 1 .. Len(t) /\ ~(i <= 1) /\ i \in 1 .. 1 + Len(t)
      BY <2>4, <2>5, <2>6
    <3> QED  BY <2>3, <2>5, <3>1
  <2>7. s[1] = Minus
    BY <2>4, <2>5
  <2> QED  BY <1>3, <2>6, <2>7 DEF Digit, s
<1> QED  BY <1>1, <1>2, <1>3

\* From its last digit back, a string has the digits of the number without its sign.
LEMMA StringDigits ==
  ASSUME NEW v \in Wide, NEW n \in NineDigit, n = IF v < 0 THEN -v ELSE v
  PROVE  LET s == to_string(v) IN
         /\ Len(s) = IF v < 0 THEN Width(n) + 1 ELSE Width(n)
         /\ \A j \in 0 .. Width(n) - 1 : s[Len(s) - j] = (n \div Power(j)) % 10
<1> DEFINE s == to_string(v)
           t == Numeral(n)
           w == Width(n)
<1>1. /\ v \in Int /\ w \in 1 .. 9
      /\ t \in Seq(Digit) /\ Len(t) = w
      /\ \A j \in 0 .. w - 1 : t[w - j] = (n \div Power(j)) % 10
  BY WideParts, WidthIsDigits, NumeralDigits
<1>2. CASE v >= 0
  <2>1. s = t
    BY <1>1, <1>2, StringShape
  <2> HIDE DEF s, t, w
  <2>2. Len(s) = w /\ \A j \in 0 .. w - 1 : s[Len(s) - j] = (n \div Power(j)) % 10
    BY <1>1, <2>1
  <2> QED  BY <1>1, <1>2, <2>2 DEF s, w
<1>3. CASE v < 0
  <2> DEFINE y == <<Minus>>
  <2>1. s = y \o t
    BY <1>3, StringShape
  <2>2. t \in Seq(Symbol) /\ y \in Seq(Symbol) /\ Len(y) = 1
    <3>1. Digit \subseteq Symbol /\ Minus \in Symbol
      BY DEF Digit, Symbol, Minus
    <3> QED  BY <1>1, <3>1
  <2> HIDE DEF s, t, w, y
  <2>3. /\ Len(s) = 1 + w
        /\ \A i \in 1 .. 1 + w : s[i] = IF i <= 1 THEN y[i] ELSE t[i - 1]
    <3>1. /\ Len(y \o t) = Len(y) + Len(t)
          /\ \A i \in 1 .. Len(y) + Len(t) :
               (y \o t)[i] = IF i <= Len(y) THEN y[i] ELSE t[i - Len(y)]
      BY <2>2, ConcatProperties, Zenon
    <3> QED  BY <1>1, <2>1, <2>2, <3>1
  <2>4. ASSUME NEW j \in 0 .. w - 1 PROVE s[Len(s) - j] = (n \div Power(j)) % 10
    <3>1. /\ 1 + w - j \in 1 .. 1 + w /\ ~(1 + w - j <= 1)
          /\ (1 + w - j) - 1 = w - j
      BY <1>1
    <3>2. s[1 + w - j] = t[(1 + w - j) - 1]
      BY <2>3, <3>1
    <3> QED  BY <1>1, <2>3, <3>1, <3>2
  <2>5. Len(s) = w + 1
    BY <1>1, <2>3
  <2> QED  BY <1>3, <2>4, <2>5 DEF s, w
<1> QED  BY <1>1, <1>2, <1>3

\* So the reader has the number above a digit once it comes to it, and all of it
\* in the end.
LEMMA StringReads ==
  ASSUME NEW v \in Wide, NEW n \in NineDigit, n = IF v < 0 THEN -v ELSE v
  PROVE  \E g : ReadsAs(to_string(v), g) /\ g[Len(to_string(v))] = n
<1> DEFINE s == to_string(v)
           L == Len(s)
           w == Width(n)
           g == [i \in 0 .. L |-> IF i = 0 THEN 0 ELSE n \div Power(L - i)]
<1>1. /\ v \in Int /\ n \in Nat /\ w \in 1 .. 9 /\ n < Power(w)
      /\ L = IF v < 0 THEN w + 1 ELSE w
  BY WideParts, WidthIsDigits, StringDigits DEF NineDigit
<1>2. \A j \in 0 .. w - 1 : s[L - j] = (n \div Power(j)) % 10
  BY StringDigits
<1>3. \A i \in 1 .. L : IF v < 0 /\ i = 1 THEN s[i] = Minus ELSE s[i] \in 0 .. 9
  BY StringSymbols
<1> HIDE DEF s, L, w
<1>4. n \div Power(w) = 0
  <2>1. Power(w) \in Nat \ {0}
    BY <1>1, PowersGrow
  <2>2. \A x \in Nat, y \in Nat \ {0} : x < y => x \div y = 0
    BY SMT
  <2> QED  BY <1>1, <2>1, <2>2
<1>5. /\ g[0] = 0
      /\ \A i \in 1 .. L : g[i] = n \div Power(L - i)
  BY <1>1
<1>6. ASSUME NEW i \in 1 .. L
      PROVE  g[i] = IF s[i] \in 0 .. 9 THEN 10 * g[i - 1] + s[i] ELSE g[i - 1]
  <2> HIDE DEF g
  <2>1. CASE v < 0 /\ i = 1
    <3>1. L - i = w
      BY <1>1, <2>1
    <3>2. g[i] = 0 /\ g[i - 1] = 0
      BY <1>4, <1>5, <2>1, <3>1
    <3>3. s[i] \notin 0 .. 9
      BY <1>3, <2>1 DEF Minus
    <3> QED  BY <3>2, <3>3
  <2>2. CASE ~(v < 0 /\ i = 1)
    <3> DEFINE j == L - i
    <3>1. j \in 0 .. w - 1 /\ j \in 0 .. 8 /\ L - j = i /\ L - (i - 1) = j + 1
      BY <1>1, <2>2
    <3>2. g[i - 1] = n \div Power(j + 1)
      <4>1. CASE i = 1
        <5>1. j + 1 = w
          BY <1>1, <2>2, <4>1
        <5> QED  BY <1>4, <1>5, <4>1, <5>1
      <4>2. CASE i # 1
        <5>1. i - 1 \in 1 .. L
          BY <1>1, <4>2
        <5> QED  BY <1>5, <3>1, <5>1
      <4> QED  BY <4>1, <4>2
    <3> HIDE DEF j
    <3>3. s[i] = (n \div Power(j)) % 10 /\ s[i] \in 0 .. 9
      BY <1>2, <1>3, <2>2, <3>1
    <3>4. g[i] = n \div Power(j)
      BY <1>5 DEF j
    <3>5. n \div Power(j) = 10 * (n \div Power(j + 1)) + ((n \div Power(j)) % 10)
      BY <1>1, <3>1, DigitAndRest
    <3> QED  BY <3>2, <3>3, <3>4, <3>5
  <2> QED  BY <2>1, <2>2
<1>7. g = [i \in 0 .. L |-> IF i = 0 THEN 0
                            ELSE IF s[i] \in 0 .. 9 THEN 10 * g[i - 1] + s[i] ELSE g[i - 1]]
  <2>1. g = [i \in 0 .. L |-> g[i]]
    OBVIOUS
  <2> HIDE DEF g
  <2>2. \A i \in 0 .. L : i = 0 \/ i \in 1 .. L
    BY <1>1
  <2> QED  BY <1>5, <1>6, <2>1, <2>2
<1>8. g[L] = n
  <2>1. L \in 1 .. L /\ L - L = 0
    BY <1>1
  <2>2. g[L] = n \div 1
    BY <1>5, <2>1, Powers
  <2> QED  BY <1>1, <2>2
<1> HIDE DEF g
<1>9. ReadsAs(s, g)
  BY <1>7 DEF ReadsAs, L
<1> QED  BY <1>8, <1>9 DEF s, L

\* The point is passed over.
LEMMA PointReads ==
  ASSUME NEW s \in Seq(Symbol), NEW k \in 0 .. 2, k <= Len(s), NEW g, ReadsAs(s, g)
  PROVE  Magnitude(Pointed(s, k)) = Magnitude(s)
<1> DEFINE p == Pointed(s, k)
           L == Len(s)
           m == L - k
           h == [i \in 0 .. L + 1 |-> IF i <= m THEN g[i] ELSE g[i - 1]]
<1>1. L \in Nat /\ m \in 0 .. L
  OBVIOUS
<1>2. /\ p \in Seq(Symbol) /\ Len(p) = L + 1
      /\ \A i \in 1 .. m : p[i] = s[i]
      /\ p[m + 1] = Point
      /\ \A i \in m + 1 .. L : p[i + 1] = s[i]
  BY PointedShape, Zenon
<1> HIDE DEF p, L, m
<1>3. \A i \in 0 .. L : g[i] = IF i = 0 THEN 0
                               ELSE IF s[i] \in 0 .. 9 THEN 10 * g[i - 1] + s[i]
                               ELSE g[i - 1]
  BY DEF ReadsAs, L
<1>4. /\ \A i \in 0 .. m : h[i] = g[i]
      /\ \A i \in m + 1 .. L + 1 : h[i] = g[i - 1]
  BY <1>1
<1>5. h = [i \in 0 .. L + 1 |-> h[i]]
  OBVIOUS
<1> HIDE DEF h
<1>6. h[0] = 0
  BY <1>1, <1>3, <1>4
<1>7. ASSUME NEW i \in 1 .. L + 1
      PROVE  h[i] = IF p[i] \in 0 .. 9 THEN 10 * h[i - 1] + p[i] ELSE h[i - 1]
  <2>1. CASE i <= m
    <3>1. i \in 1 .. m /\ i \in 0 .. m /\ i - 1 \in 0 .. m /\ i \in 0 .. L /\ i # 0
      BY <1>1, <2>1
    <3> QED  BY <1>2, <1>3, <1>4, <3>1
  <2>2. CASE i = m + 1
    <3>1. i \in m + 1 .. L + 1 /\ i - 1 = m /\ m \in 0 .. m
      BY <1>1, <2>2
    <3>2. p[i] \notin 0 .. 9
      BY <1>2, <2>2 DEF Point
    <3> QED  BY <1>4, <3>1, <3>2
  <2>3. CASE i > m + 1
    <3>1. /\ i \in m + 1 .. L + 1 /\ i - 1 \in m + 1 .. L + 1 /\ i - 1 \in m + 1 .. L
          /\ (i - 1) + 1 = i /\ i - 1 \in 0 .. L /\ i - 1 # 0
      BY <1>1, <2>3
    <3>2. p[i] = s[i - 1]
      BY <1>2, <3>1
    <3>3. h[i] = g[i - 1] /\ h[i - 1] = g[(i - 1) - 1]
      BY <1>4, <3>1
    <3> QED  BY <1>3, <3>1, <3>2, <3>3
  <2> QED  BY <1>1, <2>1, <2>2, <2>3
<1>8. ReadsAs(p, h)
  <2>1. \A i \in 0 .. L + 1 : i = 0 \/ i \in 1 .. L + 1
    BY <1>1
  <2>2. h = [i \in 0 .. L + 1 |-> IF i = 0 THEN 0
                                  ELSE IF p[i] \in 0 .. 9 THEN 10 * h[i - 1] + p[i]
                                  ELSE h[i - 1]]
    BY <1>5, <1>6, <1>7, <2>1
  <2> QED  BY <1>2, <2>2 DEF ReadsAs
<1>9. h[L + 1] = g[L]
  <2>1. L + 1 \in m + 1 .. L + 1 /\ (L + 1) - 1 = L
    BY <1>1
  <2> QED  BY <1>4, <2>1
<1>10. Magnitude(p) = h[L + 1] /\ Magnitude(s) = g[L]
  BY <1>2, <1>8, MagnitudeRead DEF L
<1> QED  BY <1>9, <1>10 DEF p

\* The text of a number reads as the number, if it is not a negative voltage of
\* one digit: its point would stand before the minus.
LEMMA TextReads ==
  ASSUME NEW m \in Numeric, NEW v \in Int, Number(m, v) \in Wide, ~TooShort(m, v),
         m = "voltage" => v >= 0
  PROVE  LET t == TextOf(m, v) IN
         WellFormed(t) /\ BehindPoint(t) = Places(m) /\ Meaning(t) = Number(m, v)
<1> DEFINE u == Number(m, v)
           s == to_string(u)
           k == Places(m)
           L == Len(s)
           n == IF u < 0 THEN -u ELSE u
           t == TextOf(m, v)
<1>1. u \in Int /\ n \in NineDigit
  BY WideParts
<1>2. /\ s \in Seq(Symbol) /\ L \in Nat /\ L >= 1
      /\ u < 0 => L >= 2
  BY StringShape
<1>3. \A i \in 1 .. L : IF u < 0 /\ i = 1 THEN s[i] = Minus ELSE s[i] \in 0 .. 9
  BY StringSymbols
<1>4. PICK g : ReadsAs(s, g) /\ g[L] = n
  BY <1>1, StringReads
<1>5. Magnitude(s) = n
  BY <1>2, <1>4, MagnitudeRead
<1>6. /\ k \in 0 .. 2 /\ k <= L /\ m # "health"
      /\ k # 0 => u = v
      /\ k = 2 => m = "voltage"
  <2>1. k \in 0 .. 2 /\ m # "health" /\ (k # 0 => m # "level") /\ (k = 2 => m = "voltage")
    BY MonitorsPlaces
  <2> QED  BY <1>2, <2>1 DEF TooShort, Number
<1>7. k = 0 => t = s
  BY <1>6 DEF TextOf
<1>8. k # 0 => t = Pointed(s, k)
  BY <1>6 DEF TextOf
<1>9. u < 0 => k < 2
  BY <1>6
<1> HIDE DEF s, k, L, t, n, u
<1>10. CASE k = 0
  <2>1. \A i \in 1 .. L : t[i] = s[i]
    BY <1>7, <1>10
  <2>2. DOMAIN t = 1 .. L /\ Len(t) = L /\ Head(t) = t[1]
    BY <1>2, <1>7, <1>10 DEF L
  <2>3. \A i \in 1 .. L : /\ t[i] # Point
                          /\ t[i] = Minus <=> (u < 0 /\ i = 1)
                          /\ ~(u < 0 /\ i = 1) => t[i] \in 0 .. 9
    BY <1>3, <2>1 DEF Minus, Point
  <2>4. 1 \in 1 .. L /\ L \in 1 .. L
    BY <1>2
  <2>5. WellFormed(t)
    BY <1>1, <1>2, <2>2, <2>3, <2>4 DEF WellFormed
  <2>6. BehindPoint(t) = k
    BY <1>10, <2>2, <2>3 DEF BehindPoint, Contains
  <2>7. Meaning(t) = u
    <3>1. Magnitude(t) = n
      BY <1>5, <1>7, <1>10
    <3>2. Head(t) = Minus <=> u < 0
      BY <2>2, <2>3, <2>4
    <3> QED  BY <1>1, <3>1, <3>2 DEF Meaning, n
  <2> QED  BY <2>5, <2>6, <2>7 DEF t, k, u
<1>11. CASE k # 0
  <2> DEFINE j == L - k + 1
  <2> DEFINE q == Pointed(s, k)
  <2>1. t \in Seq(Symbol) /\ Len(t) = L + 1
    BY <1>2, <1>6, <1>8, <1>11, PointedShape, Zenon DEF L
  <2>2. /\ \A i \in 1 .. L - k : t[i] = s[i]
        /\ t[j] = Point
        /\ \A i \in L - k + 1 .. L : t[i + 1] = s[i]
    <3>1. /\ \A i \in 1 .. L - k : q[i] = s[i]
          /\ q[L - k + 1] = Point
          /\ \A i \in L - k + 1 .. L : q[i + 1] = s[i]
      BY <1>2, <1>6, PointedShape, Zenon DEF L
    <3> QED  BY <1>8, <1>11, <3>1
  <2>3. j \in 1 .. L + 1 /\ (u < 0 => j # 1) /\ L + 1 - j = k
    BY <1>2, <1>6, <1>9
  <2>4. DOMAIN t = 1 .. L + 1 /\ Head(t) = t[1]
    <3>1. t # <<>>
      BY <1>2, <2>1
    <3> QED  BY <1>2, <2>1, <3>1
  <2>5. ASSUME NEW i \in 1 .. L + 1, i # j
        PROVE  IF u < 0 /\ i = 1 THEN t[i] = Minus ELSE t[i] \in 0 .. 9
    <3>1. CASE i < j
      <4>1. i \in 1 .. L - k /\ i \in 1 .. L
        BY <1>2, <1>6, <3>1
      <4> QED  BY <1>3, <2>2, <4>1
    <3>2. CASE i > j
      <4>1. i - 1 \in L - k + 1 .. L /\ i - 1 \in 1 .. L /\ (i - 1) + 1 = i /\ i # 1
        BY <1>2, <1>6, <3>2
      <4>2. t[i] = s[i - 1]
        BY <2>2, <4>1
      <4>3. u < 0 => i - 1 # 1
        <5>1. u < 0 => j >= 2
          BY <1>2, <2>3
        <5> QED  BY <1>2, <1>6, <3>2, <5>1
      <4> QED  BY <1>3, <4>1, <4>2, <4>3
    <3> QED  BY <1>2, <1>6, <2>5, <3>1, <3>2
  <2> HIDE DEF j
  <2>6. \A i \in 1 .. L + 1 : /\ t[i] = Point <=> i = j
                              /\ t[i] = Minus <=> (u < 0 /\ i = 1)
    BY <2>2, <2>3, <2>5 DEF Minus, Point
  <2>7. WellFormed(t)
    <3>1. L + 1 \in 1 .. L + 1 /\ L + 1 # 1 /\ L + 1 # j
      BY <1>2, <1>6, <1>11, <2>3
    <3>2. t[L + 1] \in 0 .. 9
      BY <2>5, <3>1
    <3> QED  BY <2>4, <2>6, <3>1, <3>2 DEF WellFormed
  <2>8. BehindPoint(t) = k
    <3>1. (CHOOSE i \in DOMAIN t : t[i] = Point) = j
      BY <2>3, <2>4, <2>6
    <3>2. \E i \in 1 .. Len(t) : t[i] = Point
      BY <2>1, <2>2, <2>3
    <3>3. BehindPoint(t) = Len(t) - CHOOSE i \in DOMAIN t : t[i] = Point
      BY <3>2 DEF BehindPoint, Contains
    <3>4. BehindPoint(t) = (L + 1) - j
      BY <2>1, <3>1, <3>3
    <3> QED  BY <1>2, <2>3, <3>4
  <2>9. Meaning(t) = u
    <3>1. Magnitude(t) = n
      <4>1. Magnitude(Pointed(s, k)) = Magnitude(s)
        BY <1>2, <1>4, <1>6, PointReads DEF L
      <4> QED  BY <1>5, <1>8, <1>11, <4>1
    <3>2. 1 \in 1 .. L + 1
      BY <1>2
    <3>3. Head(t) = Minus <=> u < 0
      BY <2>4, <2>6, <3>2
    <3> QED  BY <1>1, <3>1, <3>3 DEF Meaning, n
  <2> QED  BY <2>7, <2>8, <2>9 DEF t, k, u
<1> QED  BY <1>10, <1>11

-----------------------------------------------------------------------------
\* The scaling of a number: it stays a number of nine digits with its sign.
LEMMA ScalingKeeps ==
  ASSUME NEW m \in Numeric, NEW n \in Int, -Power(9) < n, n + 1 < Power(9)
  PROVE  /\ Scaled(m, n) \in Int
         /\ Number(m, Scaled(m, n)) \in Wide
         /\ n >= 0 => Scaled(m, n) >= 0
<1> DEFINE B == Power(9)
<1>1. B \in Int /\ B > 1
  BY Powers, SMT
<1>2. -B < n /\ n + 1 < B
  OBVIOUS
<1> HIDE DEF B
<1>3. /\ Scaled(m, n) \in Int
      /\ -B < Scaled(m, n) /\ Scaled(m, n) + 1 < B
      /\ n >= 0 => Scaled(m, n) >= 0
  <2>1. ASSUME NEW d \in {1000, 10000}
        PROVE  /\ Truncated(n, d) \in Int
               /\ -B < Truncated(n, d) /\ Truncated(n, d) + 1 < B
               /\ n >= 0 => Truncated(n, d) >= 0
    <3>1. \A x \in Nat : x \div 1000 \in 0 .. x /\ x \div 10000 \in 0 .. x
      BY SMT
    <3>2. CASE n < 0
      BY <1>1, <1>2, <3>1, <3>2, SMT DEF Truncated
    <3>3. CASE n >= 0
      BY <1>1, <1>2, <3>1, <3>3, SMT DEF Truncated
    <3> QED  BY <3>2, <3>3
  <2> QED  BY <1>2, <2>1 DEF Scaled
<1>4. \/ Number(m, Scaled(m, n)) = Scaled(m, n)
      \/ Number(m, Scaled(m, n)) = Scaled(m, n) + 1
  BY DEF Number, LevelRaised
<1>5. \A x \in Int : -B < x /\ x < B => x \in Wide
  BY DEF Wide, B
<1>6. /\ Number(m, Scaled(m, n)) \in Int
      /\ -B < Number(m, Scaled(m, n))
      /\ Number(m, Scaled(m, n)) < B
  BY <1>1, <1>3, <1>4
<1> QED  BY <1>3, <1>5, <1>6

\* What a reader returns when nothing was scanned.
FailedValue(m) == {Failed(m), NotScanned(m)}

LEMMA FailedValues ==
  /\ FailedValue("voltage") = {-1, 0}
  /\ FailedValue("current") = {-1, 0}
  /\ FailedValue("temp") = {-1}
  /\ FailedValue("level") = {-1}
  /\ FailedValue("health") = {"Error", "N/A"}
<1>1. 1 \div 1000 = 0 /\ 1 \div 10000 = 0
  BY SMT
<1>2. Truncated(-1, 1000) = 0 /\ Truncated(-1, 10000) = 0
  BY <1>1 DEF Truncated
<1> QED  BY <1>2 DEF FailedValue, Failed, NotScanned, Scaled

-----------------------------------------------------------------------------
\* The value is that of what was scanned, or of a failure; the label is that of
\* the value; and a monitor dies of a string that is too short.
ReadInv ==
  /\ monitor \in Monitor
  /\ content \in Holds[monitor]
  /\ pc \in {"format", "shown", "died"} =>
       \/ \E n \in Holds[monitor] : scanned = <<n>> /\ value = Scaled(monitor, n)
       \/ scanned = <<>> /\ value \in FailedValue(monitor)
  /\ pc = "shown" => /\ ~TooShort(monitor, value)
                     /\ text = TextOf(monitor, value)
                     /\ color = ColorOf(monitor, value)
  /\ pc = "died" => TooShort(monitor, value)

LEMMA ReadInvHolds == ReadSpec => []ReadInv
<1>1. ReadInit => ReadInv
  BY DEF ReadInit, ReadInv
<1>2. ReadInv /\ [ReadNext]_readVars => ReadInv'
  <2> SUFFICES ASSUME ReadInv, [ReadNext]_readVars PROVE ReadInv'
    OBVIOUS
  <2> USE DEF Goes, fileVars
  <2>1. CASE FileChanges
    BY <2>1 DEF FileChanges, ReadInv
  <2>2. CASE OpenFails
    BY <2>2 DEF OpenFails, Nothing, FailedValue, ReadInv
  <2>3. CASE Opens
    BY <2>3 DEF Opens, ReadInv
  <2>4. CASE Scans
    BY <2>4 DEF Scans, Nothing, FailedValue, ReadInv
  <2>5. CASE CloseFails
    BY <2>5 DEF CloseFails, Nothing, Failed, FailedValue, ReadInv
  <2>6. CASE Formats
    BY <2>6 DEF Formats, ReadInv
  <2>7. CASE Throws
    BY <2>7 DEF Throws, ReadInv
  <2>8. CASE Again
    BY <2>8 DEF Again, ReadInv
  <2>9. CASE UNCHANGED readVars
    BY <2>9 DEF readVars, ReadInv
  <2> QED
    BY <2>1, <2>2, <2>3, <2>4, <2>5, <2>6, <2>7, <2>8, <2>9 DEF ReadNext
<1> QED  BY <1>1, <1>2, PTL DEF ReadSpec

\* Of which values the string is too short: of a voltage of one digit.
LEMMA ShortOnes ==
  ASSUME NEW m \in Monitor, NEW v, m \in Numeric => v \in Int,
         m \in Numeric => Number(m, v) \in Wide,
         TooShort(m, v)
  PROVE  m = "voltage" /\ v \in 0 .. 9
<1> DEFINE s == to_string(Number(m, v))
<1>1. m \in Numeric /\ Len(s) < Places(m)
  BY DEF TooShort
<1>2. Len(s) \in Nat /\ Len(s) >= 1
  BY <1>1, StringShape
<1> HIDE DEF s
<1>3. m = "voltage" /\ Len(s) < 2
  BY <1>1, <1>2, MonitorsPlaces
<1>4. Number(m, v) = v
  BY <1>3 DEF Number
<1>5. ~(v < 0 \/ v >= 10)
  <2>1. v < 0 \/ v >= 10 => Len(to_string(v)) >= 2
    BY <1>1, <1>4, StringShape
  <2> QED  BY <1>2, <1>3, <1>4, <2>1 DEF s
<1> QED  BY <1>1, <1>3, <1>5

\* And a voltage of one digit is too short for its two places.
LEMMA OneDigitIsShort ==
  ASSUME NEW v \in 0 .. 9
  PROVE  TooShort("voltage", v)
<1>1. v \in Int /\ v < 10 /\ v >= 0
  OBVIOUS
<1>2. v \in Wide /\ v \in NineDigit
  BY <1>1, Powers, SMT DEF Wide, NineDigit
<1>3. Width(v) = 1
  <2>1. Width(v) - 1 \in 0 .. 9 /\ Width(v) \in 1 .. 9
    BY <1>2, WidthIsDigits
  <2>2. Power(1) = 10 /\ Power(Width(v) - 1) \in Nat
    BY <2>1, Powers, PowersGrow
  <2>3. Width(v) - 1 >= 1 => Power(1) <= Power(Width(v) - 1)
    BY <2>1, PowersGrow
  <2> QED  BY <1>1, <1>2, <2>1, <2>2, <2>3, WidthIsDigits
<1>4. Len(to_string(v)) = 1
  BY <1>1, <1>2, <1>3, StringShape, NumeralDigits
<1>5. "voltage" \in Numeric
  BY DEF Numeric, Monitor
<1>6. Len(to_string(v)) < Places("voltage")
  BY <1>4, MonitorsPlaces
<1> QED  BY <1>5, <1>6 DEF TooShort, Number

\* The value of a monitor of a number is one whose string there is.
LEMMA ValuesAreWide ==
  ASSUME ReadInv, pc \in {"format", "shown", "died"},
         monitor \in Numeric
  PROVE  value \in Int /\ Number(monitor, value) \in Wide
<1>1. CASE \E n \in Holds[monitor] : scanned = <<n>> /\ value = Scaled(monitor, n)
  <2>1. PICK n \in Holds[monitor] : value = Scaled(monitor, n)
    BY <1>1
  <2>2. n \in Int /\ -Power(9) < n /\ n + 1 < Power(9)
    BY ReadingsAssumption DEF Power
  <2> QED  BY <2>1, <2>2, ScalingKeeps
<1>2. CASE value \in FailedValue(monitor)
  <2>1. value \in {-1, 0}
    BY <1>2, FailedValues, MonitorsPlaces
  <2>2. Number(monitor, value) \in {-1, 0, 1}
    BY <2>1 DEF Number, LevelRaised
  <2>3. Power(9) \in Int /\ Power(9) > 1
    BY Powers, SMT
  <2>4. \A x \in {-1, 0, 1} : x \in Int /\ -Power(9) < x /\ x < Power(9)
    BY <2>3
  <2> QED  BY <2>1, <2>2, <2>4 DEF Wide
<1> QED  BY <1>1, <1>2 DEF ReadInv

\* The process dies only in the voltage's monitor: of a voltage below a tenth of
\* a volt, or of a file that is there and holds no number (core.cpp:202,
\* Battery.cpp:470-477).
THEOREM LowVoltageDies == ReadSpec => []OnlyLowVoltageDies
<1>1. ReadInv => OnlyLowVoltageDies
  <2> SUFFICES ASSUME ReadInv, pc = "died" PROVE OnlyLowVoltageDies
    BY DEF OnlyLowVoltageDies
  <2>1. TooShort(monitor, value) /\ monitor \in Monitor
    BY DEF ReadInv
  <2>2. monitor = "voltage" /\ value \in 0 .. 9
    BY <2>1, ShortOnes, ValuesAreWide
  <2>3. value # -1
    BY <2>2
  <2>4. ASSUME NEW n \in Holds["voltage"], value = Scaled("voltage", n)
        PROVE  -10000 < n /\ n < 100000
    <3>1. n \in Int
      BY ReadingsAssumption DEF Numeric, Monitor
    <3>2. Truncated(n, 10000) \in 0 .. 9
      BY <2>2, <2>4 DEF Scaled
    <3>3. CASE n < 0
      BY <3>1, <3>2, <3>3, SMT DEF Truncated
    <3>4. CASE n >= 0
      BY <3>1, <3>2, <3>4, SMT DEF Truncated
    <3> QED  BY <3>1, <3>3, <3>4, SMT
  <2> QED  BY <2>2, <2>3, <2>4 DEF ReadInv, OnlyLowVoltageDies, Nothing
<1> QED  BY <1>1, ReadInvHolds, PTL

\* What the kernel's files never hold: a negative level or voltage, and the words
\* that the reader of the health has for a failure.
KernelsOwn == /\ \A n \in Holds["level"] \cup Holds["voltage"] : n >= 0
              /\ \A w \in Holds["health"] : w \notin {"Error", "N/A"}

\* A failed reading is red, whichever way it failed, and for the level, the
\* voltage and the health its text is none that a reading could have (core.cpp:202,
\* 207, 288, Battery.cpp:456-477).
THEOREM FailureTold ==
  ASSUME KernelsOwn
  PROVE  ReadSpec => []FailureIsTold
<1>1. ReadInv => FailureIsTold
  <2> SUFFICES ASSUME ReadInv, pc = "shown", scanned = Nothing
               PROVE  /\ color = "red"
                      /\ monitor \in {"level", "voltage"} =>
                           \A n \in Holds[monitor] :
                             \/ TooShort(monitor, Scaled(monitor, n))
                             \/ text # TextOf(monitor, Scaled(monitor, n))
                      /\ monitor = "health" => \A w \in Holds["health"] : text # <<w>>
    BY DEF FailureIsTold
  <2>1. /\ monitor \in Monitor
        /\ value \in FailedValue(monitor)
        /\ ~TooShort(monitor, value)
        /\ text = TextOf(monitor, value)
        /\ color = ColorOf(monitor, value)
    BY DEF ReadInv, Nothing
  <2>2. color = "red"
    BY <2>1, FailedValues DEF ColorOf, Monitor, Number,
       LevelRaised
  <2>3. ASSUME monitor \in {"level", "voltage"}, NEW n \in Holds[monitor],
               ~TooShort(monitor, Scaled(monitor, n)),
               text = TextOf(monitor, Scaled(monitor, n))
        PROVE  FALSE
    <3>1. monitor \in Numeric /\ monitor # "health"
      BY <2>1, <2>3, MonitorsPlaces
    <3>2. n \in Int /\ -Power(9) < n /\ n + 1 < Power(9) /\ n >= 0
      BY <2>3, <3>1, ReadingsAssumption DEF Power, KernelsOwn
    <3>3. /\ Scaled(monitor, n) \in Int
          /\ Number(monitor, Scaled(monitor, n)) \in Wide
          /\ Scaled(monitor, n) >= 0
      BY <3>1, <3>2, ScalingKeeps
    <3>4. value \in Int /\ Number(monitor, value) \in Wide
      BY <3>1, ValuesAreWide
    <3>5. value = Scaled(monitor, n)
      BY <2>1, <2>3, <3>1, <3>3, <3>4, LabelTellsValue
    <3>6. value \in {-1, 0}
      BY <2>1, <2>3, FailedValues
    <3>7. value = 0 /\ monitor = "voltage"
      BY <2>1, <2>3, <3>3, <3>5, <3>6, FailedValues
    <3> QED  BY <2>1, <3>7, OneDigitIsShort
  <2>4. ASSUME monitor = "health", NEW w \in Holds["health"], text = <<w>> PROVE FALSE
    <3>1. value \in {"Error", "N/A"}
      BY <2>1, <2>4, FailedValues
    <3>2. text = <<value>>
      BY <2>1, <2>4 DEF TextOf
    <3> QED  BY <2>4, <3>1, <3>2 DEF KernelsOwn
  <2> QED  BY <2>2, <2>3, <2>4
<1> QED  BY <1>1, ReadInvHolds, PTL
\* The scaling of a number loses less than a unit of the label, towards zero.
LEMMA ScalingCuts ==
  ASSUME NEW m \in Numeric, NEW n \in Int
  PROVE  LET rest == n - Scaled(m, n) * Unit(m) IN
         /\ -Unit(m) < rest /\ rest < Unit(m)
         /\ IF n < 0 THEN rest <= 0 ELSE rest >= 0
<1>1. ASSUME NEW d \in {1000, 10000}
      PROVE  LET rest == n - Truncated(n, d) * d IN
             /\ -d < rest /\ rest < d
             /\ IF n < 0 THEN rest <= 0 ELSE rest >= 0
  <2>1. \A x \in Nat : /\ x \div 1000 \in Nat /\ x \div 10000 \in Nat
                       /\ (x \div 1000) * 1000 <= x /\ x < (x \div 1000) * 1000 + 1000
                       /\ (x \div 10000) * 10000 <= x /\ x < (x \div 10000) * 10000 + 10000
    BY SMT
  <2>2. CASE n < 0
    <3>1. -n \in Nat /\ Truncated(n, d) = -((-n) \div d)
      BY <2>2 DEF Truncated
    <3> QED  BY <2>1, <2>2, <3>1, SMT
  <2>3. CASE n >= 0
    <3>1. n \in Nat /\ Truncated(n, d) = n \div d
      BY <2>3 DEF Truncated
    <3> QED  BY <2>1, <2>3, <3>1, SMT
  <2> QED  BY <2>2, <2>3
<1>2. CASE m \in {"current", "voltage"}
  BY <1>1, <1>2 DEF Scaled, Unit
<1>3. CASE m \notin {"current", "voltage"}
  BY <1>3, SMT DEF Scaled, Unit
<1> QED  BY <1>2, <1>3

\* A number that was read is the number on the label, cut to its last place: the
\* text, read as a person does, differs from the file by less than a unit
\* (core.cpp:171, 202, 262, 288).
THEOREM TextIsTrue ==
  ASSUME KernelsOwn
  PROVE  ReadSpec => []TextTellsValue
<1>1. ReadInv => TextTellsValue
  <2> SUFFICES ASSUME ReadInv, pc = "shown", monitor \in Numeric, scanned # Nothing
               PROVE  TextTellsValue
    BY DEF TextTellsValue
  <2>1. /\ ~TooShort(monitor, value) /\ text = TextOf(monitor, value)
        /\ \E n \in Holds[monitor] : scanned = <<n>> /\ value = Scaled(monitor, n)
    BY DEF ReadInv, Nothing
  <2>2. PICK n \in Holds[monitor] : scanned = <<n>> /\ value = Scaled(monitor, n)
    BY <2>1
  <2>3. n \in Int /\ -Power(9) < n /\ n + 1 < Power(9)
    BY ReadingsAssumption DEF Power
  <2>4. value \in Int /\ Number(monitor, value) \in Wide
    BY <2>2, <2>3, ScalingKeeps
  <2>5. monitor = "voltage" => value >= 0
    <3>1. monitor = "voltage" => n >= 0
      BY <2>2 DEF KernelsOwn
    <3> QED  BY <2>2, <2>3, <3>1, ScalingKeeps
  <2>6. /\ WellFormed(text) /\ BehindPoint(text) = Places(monitor)
        /\ Meaning(text) = Number(monitor, value)
    BY <2>1, <2>4, <2>5, TextReads
  <2>7. Meaning(text) - (IF monitor = "level" THEN 1 ELSE 0) = value
    BY <2>4, <2>6 DEF Number, LevelRaised
  <2>8. scanned[1] = n
    BY <2>2
  <2>9. /\ -Unit(monitor) < n - value * Unit(monitor)
        /\ n - value * Unit(monitor) < Unit(monitor)
        /\ IF n < 0 THEN n - value * Unit(monitor) <= 0 ELSE n - value * Unit(monitor) >= 0
    BY <2>2, <2>3, ScalingCuts
  <2> QED  BY <2>6, <2>7, <2>8, <2>9 DEF TextTellsValue, Places
<1> QED  BY <1>1, ReadInvHolds, PTL

=============================================================================
