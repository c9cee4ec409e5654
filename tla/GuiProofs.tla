------------------------------ MODULE GuiProofs ------------------------------
(***************************************************************************)
(* For any number of clients and widgets: how lvgl_lock can be lost with   *)
(* the cancelled task, that a client whose widgets no other client deletes *)
(* never uses one that is gone, and that an undisturbed LCD test is        *)
(* complete.                                                               *)
(***************************************************************************)
EXTENDS Gui, TLAPS

\* The lock is the task's in the handler, and after the handler only if the task
\* was cancelled there.  A task caught asleep never comes to the handler again.
TaskInv ==
  /\ task = "handler" => lvgl_lock = "task"
  /\ lvgl_lock = "task" => task \in {"handler", "gone"}
  /\ caught # "gone"
  /\ "task" \in pending \/ task = "gone" => caught # "nowhere"
  /\ caught = "sleep" => /\ lvgl_lock = Nobody
                         /\ \/ task = "sleep" /\ "task" \in pending
                            \/ task = "gone"

DrawPlace == {"RED", "GREEN", "BLUE", "YELLOW", "shown"}

\* A call uses a pointer its client has; nobody else has one to a canvas.
PointerInv ==
  \A c \in Client :
    /\ pc[c] = "lock" /\ call[c] \in {"Change", "Remove"} => arg[c] \in own[c]
    /\ pc[c] \in DrawPlace => arg[c] \in made
    /\ \A d \in Client :
         /\ pc[c] \in DrawPlace => arg[c] \notin own[d]
         /\ c # d /\ pc[c] \in DrawPlace /\ pc[d] \in DrawPlace => arg[c] # arg[d]

\* What nobody else has deleted is there.
LiveInv == \A c \in Client : c \notin robbed =>
             /\ own[c] \subseteq live
             /\ pc[c] \in DrawPlace => arg[c] \in live

HarmInv == corrupt => robbed # {}

\* An undisturbed drawing has its canvas and the rectangles drawn so far.
QuadInv ==
  \A c \in Client : c \notin spoilt =>
    /\ pc[c] \in DrawPlace => arg[c] \in live
    /\ pc[c] \in {"GREEN", "BLUE", "YELLOW", "shown"} => "RED" \in rectangles
    /\ pc[c] \in {"BLUE", "YELLOW", "shown"} => "GREEN" \in rectangles
    /\ pc[c] \in {"YELLOW", "shown"} => "BLUE" \in rectangles
    /\ pc[c] = "shown" => "YELLOW" \in rectangles

IInv == GuiTypeOK /\ TaskInv /\ PointerInv /\ LiveInv /\ HarmInv /\ QuadInv

-----------------------------------------------------------------------------
\* The five places of a drawing, written out.
LEMMA Stages == /\ DOMAIN QuadStage = 1 .. 5
                /\ QuadStage[1] = "RED" /\ QuadStage[2] = "GREEN"
                /\ QuadStage[3] = "BLUE" /\ QuadStage[4] = "YELLOW"
                /\ QuadStage[5] = "shown"
  BY DEF QuadStage

LEMMA Places == {QuadStage[i] : i \in DOMAIN QuadStage} = DrawPlace
<1>1. \A i \in 1 .. 5 : i \in {1, 2, 3, 4, 5}
  OBVIOUS
<1>2. {1, 2, 3, 4, 5} \subseteq 1 .. 5
  OBVIOUS
<1>3. DOMAIN QuadStage = {1, 2, 3, 4, 5}
  BY <1>1, <1>2, Stages
<1>4. QED
  BY <1>3, Stages, Zenon DEF DrawPlace

LEMMA DrawingPlace == \A c \in Client : Drawing(c) <=> pc[c] \in DrawPlace
  BY Places, Zenon DEF Drawing

\* Whom a deletion of widgets by c leaves alone.
LEMMA NotRobbed ==
  ASSUME NEW c \in Client, NEW widgets, Robs(c, widgets)
  PROVE  /\ robbed \subseteq robbed'
         /\ robbed \subseteq Client => robbed' \subseteq Client
         /\ \A d \in Client \ {c} : d \notin robbed' =>
               /\ own[d] \cap widgets = {}
               /\ pc[d] \in DrawPlace => arg[d] \notin widgets
  BY DrawingPlace DEF Robs, Has

LEMMA Rectangles == Rectangle = {"RED", "GREEN", "BLUE", "YELLOW"}
<1>1. 1 .. 4 = {1, 2, 3, 4}
  OBVIOUS
<1>2. QED
  BY <1>1, Stages, Zenon DEF Rectangle

\* A rectangle is drawn, and the drawing goes on.
DrawsAndGoes(c, from, to) == Goes(c, from, to) /\ rectangles' = rectangles \cup {from}

\* The four steps of a drawing.
LEMMA Draws ==
  ASSUME NEW c \in Client, QuadDraws(c)
  PROVE  \/ DrawsAndGoes(c, "RED", "GREEN")  \/ DrawsAndGoes(c, "GREEN", "BLUE")
         \/ DrawsAndGoes(c, "BLUE", "YELLOW") \/ DrawsAndGoes(c, "YELLOW", "shown")
<1>1. PICK i \in 1 .. 4 : DrawsAndGoes(c, QuadStage[i], QuadStage[i + 1])
  BY DEF QuadDraws, RectangleOf, DrawsAndGoes
<1>2. i = 1 \/ i = 2 \/ i = 3 \/ i = 4
  OBVIOUS
<1>3. QED
  BY <1>1, <1>2, Stages

\* The threads of LVGL leave widgets and clients alone.
LEMMA LvglLeaves == TaskStep \/ TickStep => UNCHANGED <<widgetVars, callVars, drawVars>>
  BY DEF TaskStep, TickStep, TaskEnters, TaskLeaves, TaskWakes, TaskEnds, TickIncs,
     TickWakes, TickEnds

\* The clients leave the threads of LVGL alone, but for GuiCleanUp.
LEMMA ClientsLeave ==
  ASSUME NEW c \in Client, Enter(c) \/ CallStep(c), ~CleanUp(c)
  PROVE  UNCHANGED lvglVars
  BY DEF Enter, CallStep, AddWidget, AddTitle, AddDirectionLabel, Change, Remove, Clear,
     QuadBegin, QuadDraws, QuadEnds

-----------------------------------------------------------------------------
LEMMA TypeStep == IInv /\ [Next]_vars => GuiTypeOK'
<1> SUFFICES ASSUME IInv, [Next]_vars PROVE GuiTypeOK'
  OBVIOUS
<1> USE Places, Rectangles, GuiAssumption
<1> USE DEF IInv, GuiTypeOK, TaskInv, Goes, Returns, DrawPlace, Lvgl, Free
<1>1. ASSUME NEW c \in Client, Enter(c) PROVE GuiTypeOK'
  BY <1>1 DEF Enter, lvglVars, widgetVars, drawVars
<1>2. ASSUME NEW c \in Client, AddWidget(c) PROVE GuiTypeOK'
  BY <1>2 DEF AddWidget, Section, Makes, Shares, lvglVars, drawVars
<1>3. ASSUME NEW c \in Client, AddTitle(c) PROVE GuiTypeOK'
  BY <1>3 DEF AddTitle, Section, Makes, Shares, lvglVars, drawVars
<1>4. ASSUME NEW c \in Client, AddDirectionLabel(c) PROVE GuiTypeOK'
  BY <1>4 DEF AddDirectionLabel, Section, Makes, lvglVars, drawVars
<1>5. ASSUME NEW c \in Client, Change(c) PROVE GuiTypeOK'
  BY <1>5 DEF Change, Section, Uses, lvglVars, widgetVars
<1>6. ASSUME NEW c \in Client, Remove(c) PROVE GuiTypeOK'
  BY <1>6, NotRobbed DEF Remove, Section, Uses, Deleted, lvglVars
<1>7. ASSUME NEW c \in Client, Clear(c) PROVE GuiTypeOK'
  BY <1>7, NotRobbed DEF Clear, Section, lvglVars
<1>8. ASSUME NEW c \in Client, CleanUp(c) PROVE GuiTypeOK'
  BY <1>8 DEF CleanUp, FreeForCleanUp, widgetVars, drawVars
<1>9. ASSUME NEW c \in Client, QuadBegin(c) PROVE GuiTypeOK'
  BY <1>9, Stages DEF QuadBegin, Makes, lvglVars
<1>10. ASSUME NEW c \in Client, QuadDraws(c) PROVE GuiTypeOK'
  <2>1. /\ UNCHANGED <<lvglVars, widgetVars, call, arg, robbed, spoilt>>
        /\ Uses(arg[c])
    BY <1>10 DEF QuadDraws
  <2>2. QED
    BY <1>10, <2>1, Draws DEF DrawsAndGoes, Uses, lvglVars, widgetVars
<1>11. ASSUME NEW c \in Client, QuadEnds(c) PROVE GuiTypeOK'
  BY <1>11 DEF QuadEnds, Uses, lvglVars
<1>12. CASE TaskStep
  BY <1>12 DEF TaskStep, TaskEnters, TaskLeaves, TaskWakes, TaskEnds, TaskGoes,
      widgetVars, callVars, drawVars
<1>13. CASE TickStep
  BY <1>13 DEF TickStep, TickIncs, TickWakes, TickEnds, TickGoes,
      widgetVars, callVars, drawVars
<1>14. CASE UNCHANGED vars
  BY <1>14 DEF vars, lvglVars, widgetVars, callVars, drawVars
<1>15. QED
  BY <1>1, <1>2, <1>3, <1>4, <1>5, <1>6, <1>7, <1>8, <1>9, <1>10, <1>11, <1>12, <1>13,
      <1>14 DEF Next, CallStep

\* Only GuiCleanUp and the threads themselves take part.
LEMMA TaskInvStep == IInv /\ [Next]_vars => TaskInv'
<1> SUFFICES ASSUME IInv, [Next]_vars PROVE TaskInv'
  OBVIOUS
<1> USE GuiAssumption
<1> USE DEF IInv, GuiTypeOK, TaskInv, Lvgl, Free
<1>1. ASSUME NEW c \in Client, Enter(c) \/ CallStep(c), ~CleanUp(c) PROVE TaskInv'
  BY <1>1, ClientsLeave DEF lvglVars
<1>2. ASSUME NEW c \in Client, CleanUp(c) PROVE TaskInv'
  <2>1. /\ lvgl_lock = Nobody
        /\ caught' = IF caught = "nowhere" THEN task ELSE caught
        /\ lvgl_lock' = lvgl_lock /\ task' = task
    BY <1>2 DEF CleanUp, FreeForCleanUp
  <2>2. pending \subseteq pending'
    BY <1>2 DEF CleanUp
  <2>3. task # "gone" => "task" \in pending'
    BY <1>2 DEF CleanUp
  <2>4. task # "handler"
    BY <2>1
  <2>5. QED
    BY <2>1, <2>2, <2>3, <2>4
<1>3. CASE TaskStep
  BY <1>3 DEF TaskStep, TaskEnters, TaskLeaves, TaskWakes, TaskEnds, TaskGoes
<1>4. CASE TickStep
  BY <1>4 DEF TickStep, TickIncs, TickWakes, TickEnds, TickGoes
<1>5. CASE UNCHANGED vars
  BY <1>5 DEF vars, lvglVars
<1>6. QED
  BY <1>1, <1>2, <1>3, <1>4, <1>5 DEF Next

\* New widgets are nobody's yet; canvases go with the drawing that made them.
LEMMA PointerStep == IInv /\ [Next]_vars => PointerInv'
<1> SUFFICES ASSUME IInv, [Next]_vars PROVE PointerInv'
  OBVIOUS
<1> USE Places, DrawingPlace, GuiAssumption
<1> USE DEF IInv, GuiTypeOK, PointerInv, Goes, Returns, DrawPlace
<1>1. ASSUME NEW c \in Client, Enter(c) PROVE PointerInv'
  BY <1>1 DEF Enter, widgetVars
<1>2. ASSUME NEW c \in Client, AddWidget(c) PROVE PointerInv'
  BY <1>2 DEF AddWidget, Section, Makes, Shares
<1>3. ASSUME NEW c \in Client, AddTitle(c) PROVE PointerInv'
  BY <1>3 DEF AddTitle, Section, Makes, Shares
<1>4. ASSUME NEW c \in Client, AddDirectionLabel(c) PROVE PointerInv'
  BY <1>4 DEF AddDirectionLabel, Section, Makes
<1>5. ASSUME NEW c \in Client, Change(c) PROVE PointerInv'
  BY <1>5 DEF Change, Section, widgetVars
<1>6. ASSUME NEW c \in Client, Remove(c) PROVE PointerInv'
  BY <1>6 DEF Remove, Section
<1>7. ASSUME NEW c \in Client, Clear(c) PROVE PointerInv'
  BY <1>7 DEF Clear, Section
<1>8. ASSUME NEW c \in Client, CleanUp(c) PROVE PointerInv'
  BY <1>8 DEF CleanUp, widgetVars
<1>9. ASSUME NEW c \in Client, QuadBegin(c) PROVE PointerInv'
  BY <1>9, Stages DEF QuadBegin, Makes
<1>10. ASSUME NEW c \in Client, QuadDraws(c) PROVE PointerInv'
  <2>1. UNCHANGED <<widgetVars, call, arg>>
    BY <1>10 DEF QuadDraws
  <2>2. QED
    BY <1>10, <2>1, Draws DEF DrawsAndGoes, widgetVars
<1>11. ASSUME NEW c \in Client, QuadEnds(c) PROVE PointerInv'
  BY <1>11 DEF QuadEnds
<1>12. CASE TaskStep \/ TickStep \/ UNCHANGED vars
  BY <1>12, LvglLeaves DEF vars, widgetVars, callVars
<1>13. QED
  BY <1>1, <1>2, <1>3, <1>4, <1>5, <1>6, <1>7, <1>8, <1>9, <1>10, <1>11, <1>12
     DEF Next, CallStep

\* A client that deletes widgets robs whoever else may still use them.
LEMMA LiveStep == IInv /\ [Next]_vars => LiveInv'
<1> SUFFICES ASSUME IInv, [Next]_vars PROVE LiveInv'
  OBVIOUS
<1> USE Places, DrawingPlace, GuiAssumption
<1> USE DEF IInv, GuiTypeOK, PointerInv, LiveInv, Goes, Returns, DrawPlace
<1>1. ASSUME NEW c \in Client, Enter(c) PROVE LiveInv'
  BY <1>1 DEF Enter, widgetVars, drawVars
<1>2. ASSUME NEW c \in Client, AddWidget(c) PROVE LiveInv'
  BY <1>2 DEF AddWidget, Section, Makes, Shares, drawVars
<1>3. ASSUME NEW c \in Client, AddTitle(c) PROVE LiveInv'
  BY <1>3 DEF AddTitle, Section, Makes, Shares, drawVars
<1>4. ASSUME NEW c \in Client, AddDirectionLabel(c) PROVE LiveInv'
  BY <1>4 DEF AddDirectionLabel, Section, Makes, drawVars
<1>5. ASSUME NEW c \in Client, Change(c) PROVE LiveInv'
  BY <1>5 DEF Change, Section, widgetVars
<1>6. ASSUME NEW c \in Client, Remove(c) PROVE LiveInv'
  <2>1. /\ pc[c] = "lock" /\ pc' = [pc EXCEPT ![c] = "idle"]
        /\ live' = live \ {arg[c]} /\ arg' = [arg EXCEPT ![c] = Nobody]
        /\ own' = [own EXCEPT ![c] = @ \ {arg[c]}]
    BY <1>6 DEF Remove, Section, Deleted
  <2>2. /\ robbed \subseteq robbed'
        /\ \A d \in Client \ {c} : d \notin robbed' =>
              own[d] \cap {arg[c]} = {} /\ (pc[d] \in DrawPlace => arg[d] \notin {arg[c]})
    BY <1>6, NotRobbed DEF Remove
  <2>3. ASSUME NEW d \in Client, d \notin robbed'
        PROVE  /\ own'[d] \subseteq live'
               /\ pc'[d] \in DrawPlace => arg'[d] \in live'
    <3>1. d \notin robbed
      BY <2>2, <2>3
    <3>2. CASE d = c
      BY <2>1, <3>1, <3>2
    <3>3. CASE d # c
      BY <2>1, <2>2, <2>3, <3>1, <3>3
    <3>4. QED
      BY <3>2, <3>3
  <2>4. QED
    BY <2>3
<1>7. ASSUME NEW c \in Client, Clear(c) PROVE LiveInv'
  <2>1. /\ pc[c] = "lock" /\ pc' = [pc EXCEPT ![c] = "idle"] /\ arg' = [arg EXCEPT ![c] = Nobody]
        /\ own' = [own EXCEPT ![c] = {}] /\ live' = {}
    BY <1>7 DEF Clear, Section
  <2>2. /\ robbed \subseteq robbed'
        /\ \A d \in Client \ {c} : d \notin robbed' =>
              own[d] \cap live = {} /\ (pc[d] \in DrawPlace => arg[d] \notin live)
    BY <1>7, NotRobbed DEF Clear
  <2>3. ASSUME NEW d \in Client, d \notin robbed' PROVE own'[d] = {} /\ pc'[d] \notin DrawPlace
    <3>1. d \notin robbed
      BY <2>2, <2>3
    <3>2. CASE d = c
      BY <2>1, <3>2
    <3>3. CASE d # c
      BY <2>1, <2>2, <2>3, <3>1, <3>3
    <3>4. QED
      BY <3>2, <3>3
  <2>4. QED
    BY <2>1, <2>3
<1>8. ASSUME NEW c \in Client, CleanUp(c) PROVE LiveInv'
  BY <1>8 DEF CleanUp, widgetVars, drawVars
<1>9. ASSUME NEW c \in Client, QuadBegin(c) PROVE LiveInv'
  BY <1>9, Stages DEF QuadBegin, Makes
<1>10. ASSUME NEW c \in Client, QuadDraws(c) PROVE LiveInv'
  <2>1. UNCHANGED <<widgetVars, call, arg, robbed>>
    BY <1>10 DEF QuadDraws
  <2>2. QED
    BY <1>10, <2>1, Draws DEF DrawsAndGoes, widgetVars
<1>11. ASSUME NEW c \in Client, QuadEnds(c) PROVE LiveInv'
  BY <1>11 DEF QuadEnds
<1>12. CASE TaskStep \/ TickStep \/ UNCHANGED vars
  BY <1>12, LvglLeaves DEF vars, widgetVars, callVars, drawVars
<1>13. QED
  BY <1>1, <1>2, <1>3, <1>4, <1>5, <1>6, <1>7, <1>8, <1>9, <1>10, <1>11, <1>12
     DEF Next, CallStep

\* A call that uses a widget that is gone is the call of a client that was robbed.
LEMMA UserIsRobbed ==
  ASSUME NEW c \in Client, Uses(arg[c]), LiveInv, UNCHANGED robbed \/ robbed \subseteq robbed',
         arg[c] \in own[c] \/ pc[c] \in DrawPlace
  PROVE  HarmInv'
<1>1. CASE c \in robbed
  BY <1>1 DEF HarmInv
<1>2. CASE c \notin robbed
  <2>1. arg[c] \in live
    BY <1>2 DEF LiveInv
  <2>2. ~corrupt'
    BY <2>1 DEF Uses
  <2>3. QED
    BY <2>2 DEF HarmInv
<1>3. QED
  BY <1>1, <1>2

LEMMA HarmStep == IInv /\ [Next]_vars => HarmInv'
<1> SUFFICES ASSUME IInv, [Next]_vars PROVE HarmInv'
  OBVIOUS
<1>1. LiveInv /\ PointerInv /\ HarmInv
  BY DEF IInv
<1>2. UNCHANGED <<corrupt, robbed>> => HarmInv'
  BY <1>1 DEF HarmInv
<1>3. ASSUME NEW c \in Client, Enter(c) \/ CallStep(c),
             ~(Change(c) \/ Remove(c) \/ Clear(c) \/ QuadDraws(c) \/ QuadEnds(c))
      PROVE  UNCHANGED <<corrupt, robbed>>
  BY <1>3 DEF Enter, CallStep, AddWidget, AddTitle, AddDirectionLabel, QuadBegin, CleanUp,
     drawVars
<1>4. ASSUME NEW c \in Client, Change(c) \/ Remove(c) PROVE HarmInv'
  <2>1. Uses(arg[c]) /\ pc[c] = "lock" /\ call[c] \in {"Change", "Remove"}
    BY <1>4 DEF Change, Remove, Section, Goes
  <2>2. arg[c] \in own[c]
    BY <1>1, <2>1 DEF PointerInv
  <2>3. UNCHANGED robbed \/ robbed \subseteq robbed'
    BY <1>4, NotRobbed DEF Change, Remove
  <2>4. QED
    BY <1>1, <2>1, <2>2, <2>3, UserIsRobbed
<1>5. ASSUME NEW c \in Client, Clear(c) PROVE HarmInv'
  <2>1. robbed \subseteq robbed' /\ corrupt' = corrupt
    BY <1>5, NotRobbed DEF Clear
  <2>2. QED
    BY <1>1, <2>1 DEF HarmInv
<1>6. ASSUME NEW c \in Client, QuadDraws(c) PROVE HarmInv'
  <2>1. Uses(arg[c]) /\ UNCHANGED robbed
    BY <1>6 DEF QuadDraws
  <2>2. pc[c] \in DrawPlace
    BY <1>6, Draws DEF DrawsAndGoes, Goes, DrawPlace
  <2>3. QED
    BY <1>1, <2>1, <2>2, UserIsRobbed
<1>7. ASSUME NEW c \in Client, QuadEnds(c) PROVE HarmInv'
  <2>1. Uses(arg[c]) /\ UNCHANGED robbed /\ pc[c] \in DrawPlace
    BY <1>7 DEF QuadEnds, Goes, DrawPlace
  <2>2. QED
    BY <1>1, <2>1, UserIsRobbed
<1>8. CASE TaskStep \/ TickStep \/ UNCHANGED vars
  BY <1>2, <1>8, LvglLeaves DEF vars, drawVars
<1>9. QED
  BY <1>2, <1>3, <1>4, <1>5, <1>6, <1>7, <1>8 DEF Next

\* Two drawings share the buffer: the second spoils the first when it empties it,
\* and can only add to what the first draws after that.
LEMMA QuadStep == IInv /\ [Next]_vars => QuadInv'
<1> SUFFICES ASSUME IInv, [Next]_vars PROVE QuadInv'
  OBVIOUS
<1> USE Places, DrawingPlace, GuiAssumption
<1> USE DEF IInv, GuiTypeOK, PointerInv, QuadInv, Goes, Returns, DrawPlace
<1>1. ASSUME NEW c \in Client, Enter(c) PROVE QuadInv'
  BY <1>1 DEF Enter, widgetVars, drawVars
<1>2. ASSUME NEW c \in Client, AddWidget(c) PROVE QuadInv'
  BY <1>2 DEF AddWidget, Section, Makes, Shares, drawVars
<1>3. ASSUME NEW c \in Client, AddTitle(c) PROVE QuadInv'
  BY <1>3 DEF AddTitle, Section, Makes, Shares, drawVars
<1>4. ASSUME NEW c \in Client, AddDirectionLabel(c) PROVE QuadInv'
  BY <1>4 DEF AddDirectionLabel, Section, Makes, drawVars
<1>5. ASSUME NEW c \in Client, Change(c) PROVE QuadInv'
  BY <1>5 DEF Change, Section, widgetVars
<1>6. ASSUME NEW c \in Client, Remove(c) PROVE QuadInv'
  BY <1>6 DEF Remove, Section, Deleted
<1>7. ASSUME NEW c \in Client, Clear(c) PROVE QuadInv'
  BY <1>7 DEF Clear, Section
<1>8. ASSUME NEW c \in Client, CleanUp(c) PROVE QuadInv'
  BY <1>8 DEF CleanUp, widgetVars, drawVars
<1>9. ASSUME NEW c \in Client, QuadBegin(c) PROVE QuadInv'
  BY <1>9, Stages DEF QuadBegin, Makes
<1>10. ASSUME NEW c \in Client, QuadDraws(c) PROVE QuadInv'
  <2>1. UNCHANGED <<widgetVars, call, arg, spoilt>>
    BY <1>10 DEF QuadDraws
  <2>2. QED
    BY <1>10, <2>1, Draws DEF DrawsAndGoes, widgetVars
<1>11. ASSUME NEW c \in Client, QuadEnds(c) PROVE QuadInv'
  BY <1>11 DEF QuadEnds
<1>12. CASE TaskStep \/ TickStep \/ UNCHANGED vars
  BY <1>12, LvglLeaves DEF vars, widgetVars, callVars, drawVars
<1>13. QED
  BY <1>1, <1>2, <1>3, <1>4, <1>5, <1>6, <1>7, <1>8, <1>9, <1>10, <1>11, <1>12
     DEF Next, CallStep

-----------------------------------------------------------------------------
LEMMA InvInit == Init => IInv
<1> SUFFICES ASSUME Init PROVE IInv
  OBVIOUS
<1> USE GuiAssumption, Places
<1>1. GuiTypeOK /\ TaskInv
  BY DEF Init, GuiTypeOK, TaskInv, Lvgl
<1>2. PointerInv /\ LiveInv /\ HarmInv /\ QuadInv
  BY DEF Init, PointerInv, LiveInv, HarmInv, QuadInv, DrawPlace
<1>3. QED
  BY <1>1, <1>2 DEF IInv

THEOREM Invariance == Spec => []IInv
<1>1. IInv /\ [Next]_vars => IInv'
  BY TypeStep, TaskInvStep, PointerStep, LiveStep, HarmStep, QuadStep DEF IInv
<1>2. QED
  BY InvInit, <1>1, PTL DEF Spec

\* Every variable of the library keeps its type; lvgl_lock is nobody's or the
\* task's whenever no call is at work (gui.cpp:107-140).
THEOREM GuiTypeCorrect == Spec => []GuiTypeOK
<1>1. IInv => GuiTypeOK
  BY DEF IInv
<1>2. QED
  BY <1>1, Invariance, PTL

\* lvgl_lock is lost with a task that waited for it in GuiCleanUp, or never
\* (gui.cpp:101-104).
THEOREM LockIsLostToWaiter == Spec => []LockLostToWaiter
<1>1. IInv => LockLostToWaiter
  BY DEF IInv, GuiTypeOK, TaskInv, LockLostToWaiter
<1>2. QED
  BY <1>1, Invariance, PTL

\* A client none of whose widgets another client deletes, by ClearScreen
\* (gui.cpp:274) or by RemoveGuiObj of a shared one (gui.cpp:723), uses no widget
\* that is gone, whatever it waits for and however its calls interleave.
THEOREM UnrobbedSafe == Spec => []UnrobbedIsSafe
<1>1. ASSUME IInv PROVE UnrobbedIsSafe
  <2>1. ASSUME NEW c \in Client \ robbed PROVE Has(c) \subseteq live
    <3>1. CASE Drawing(c)
      BY <1>1, <3>1, DrawingPlace DEF IInv, LiveInv, Has
    <3>2. CASE ~Drawing(c)
      BY <1>1, <3>2 DEF IInv, LiveInv, Has
    <3>3. QED
      BY <3>1, <3>2
  <2>2. QED
    BY <1>1, <2>1 DEF IInv, HarmInv, UnrobbedIsSafe
<1>2. QED
  BY <1>1, Invariance, PTL

\* An LCD test that nobody clears or draws over shows four rectangles
\* (gui.cpp:284-376).
THEOREM UnspoiltDrawn == Spec => []UnspoiltIsDrawn
<1>1. IInv => UnspoiltIsDrawn
  BY Rectangles DEF IInv, GuiTypeOK, QuadInv, DrawPlace, UnspoiltIsDrawn
<1>2. QED
  BY <1>1, Invariance, PTL
=============================================================================
