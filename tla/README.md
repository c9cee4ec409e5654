# BatteryInfo: specifications, model checks and proofs

BatteryInfo is the battery diagnostic of a hospital meter: a panel drawn with
LVGL that shows battery readings, two buttons that set the screen's brightness,
and libraries for the GUI, the battery and the audio. These modules model the
parts of it where threads, locks, queues, hardware and failures meet. Every
definition is translated from the C and C++ sources; `PROJECT.json` maps it to
its lines. Paths below are relative to `src/Source`.

## 1. The system

| Component | State it keeps | Operations | Hard behaviour |
|---|---|---|---|
| Message ring (`Libs/Audio/Audio.c`) | `MsgQ`, `MsgQLen`, `TopMsgIndex` | `InitMessaging`, `SendMessage`, `GetMessage`, the reset in `Audio_end` | wrap-around, a full ring |
| Audio service (`Audio.c`) | `MyState`, `PlayerState`, `NextTrackID` (atomics), `AudioMutex`, `MsgMutex`, `MsgCond`, `AudioThread`; the player's counters and table pointers | `Audio_init`, `_start`, `_PlayTrack`, `_end`, threads `TaskLoop` and `PlayerTaskLoop` | lifetime of threads and mutexes, late callers, lost messages, wake-ups, second sessions, a track replaced in the middle of a note |
| Note tables (`Libs/Audio/Music.h`) | none | `GetTrack`, the look-up in them | which notes may follow each other on the PWM |
| Speaker driver (`Libs/Audio/Speaker.c`) | `State`, `CurrentFreq`, chip and line pointers, `SpeakerMutex`, `VolumeMutex`; the PWM channel and the GPIO lines behind it | `Speaker_Init`, `_PlayPitch`, `_SetVolume`, `_DeInit` | partial failure of `OpenVolumePins`, ignored write errors, two mutexes, hardware that outlives the process |
| Panel (`Core/core.cpp`) | row objects, `brightness`, thread ids | `main`, `main_menu`, eight monitors, two button callbacks | start-up order, dangling text, a missing label, uncaught exceptions |
| GUI library (`Libs/Gui/gui.cpp`) | LVGL's objects under `lvgl_lock`, one canvas buffer, two threads | `GuiInit`, `Add*`, `ChangeLabel`, `RemoveGuiObj`, `ClearScreen`, `DrawQuadGridDisplay`, `GuiCleanUp` | all threads share one lock; cancellation; widgets deleted under their users |
| Battery GPIO lines (`Libs/Battery/Battery.cpp`) | `battery_lock`, two chips, four line pointers, two cached levels | `Battery_Init`, `IsMeterInDock`, `IsBatteryCharging`, `OpenGPIO`, `CloseGPIO`, `ReadGPIO`, `RunBatteryMonitorCleanup`, `BatteryTaskLoop` | a failure leaves the lock held; lines read without it; level 0 taken for a failure; handles that are freed or shared |
| Battery readings (`Battery.cpp`, `core.cpp`) | none | five readers of sysfs files, formats, colours | files that vanish, numeric edges of the formats |

How they interact: the clients of the audio service call it from their own
threads; `Audio_start` creates the task, the task creates the player; clients
reach the task through the ring (`MsgMutex`, `MsgCond`), the task reaches the
player through the one-place mailbox `NextTrackID`, and the player reaches
`Speaker.c` through its mutex. `main_menu` calls `Battery_Init` and starts the
monitors; a monitor reads a value and hands a string to `ChangeLabel`; LVGL's
task thread draws labels and runs the button callbacks, all under `lvgl_lock`.
The application itself never calls `RunAudioPlayer`, `OpenGPIO`, `GuiCleanUp` and
some others: libraries are modelled for any clients that use their headers, and the
application, in `Panel` and `Battery`, for what it does call.

What makes each part correct:

* ring: a bounded first-in first-out queue;
* audio: sessions do not leak into each other, nothing is used after it was
  destroyed, `Audio_end` returns, accepted messages are processed, one voice;
* player: whole notes in order, each at its pitch, silence between them, the last
  request wins, and it stops;
* speaker: lines are there when they are driven, the volume is the one set, the
  tone is the one asked for, off means off;
* panel: labels exist when they are changed, show text that exists, get redrawn;
* GUI library: no widget is used after its end, no call hangs;
* battery: lines are there when they are read, labels say what the lines say, no
  edge is lost;
* readings: the text says the number that was read, and a failure looks like one.

The full list of what is hard to test, line by line, is `hazards` in
`PROJECT.json`.

## 2. The modules

| Module | Models | Remarks |
|---|---|---|
| `Fifo` | the promise of the ring: a bounded sequence with `Put`, `Take`, `Clear` | abstract specification |
| `MsgQueue` | the ring as an array with an index and a count | `RingIsFifo` is the refinement, `Contents` its mapping |
| `Audio` | the audio service; extends `MsgQueue` | one action per stretch of code between two points where another thread can see a difference |
| `Jukebox` | the promise of the service: tracks sound in the order of acceptance, each at most once, with the speaker open; while it runs the last request is not lost | abstract specification; `PlaysRequests` is the refinement |
| `Tune` | the promise of the player: the notes of the last request, in order, each followed by silence | abstract specification |
| `Player` | `PlayerTaskLoop` with its counters and pointers; extends `Pwm` | `PlaysTune` is the refinement |
| `Music` | the tables of `Music.h` and `GetTrack` | data |
| `Pwm` | the PWM channel and what `Speaker_PlayPitch` writes to it | shared by `Player` and `Speaker` |
| `Speaker` | `Speaker.c` with the GPIO lines; extends `Pwm` | |
| `Panel` | `main`, `main_menu`, the monitors, LVGL's two threads, `lvgl_lock` | the application |
| `Readings` | the readers of sysfs files, formats and colours | |
| `Gui` | `gui.cpp` for any clients, with `GuiCleanUp` | the library |
| `Battery` | `Battery_Init` and the two monitors of GPIO lines | the application |
| `BatteryLines` | all of the GPIO side of `Battery.cpp` for any program | the library |
| `AudioProofs`, `PwmProofs`, `SpeakerProofs`, `PlayerProofs`, `PanelProofs`, `GuiProofs`, `BatteryProofs` | theorems about the module in their name | `AudioProofs` begins with the ring |
| `BatteryIOProofs` | theorems about `BatteryLines` and `Readings` | the two sides of `Battery.cpp` that touch files |
| `MCAudio`, `MCSpeaker`, `MCPanel`, `MCMusic`, `MCReadings` | instances for TLC | symmetry sets, the order of the rows, samples |

An operator marked `Mutant:` is the form its neighbour would have under a
plausible bug. No behaviour of a specification uses it.

### Audio

`cpc[c]`, `tpc[k]` and `ppc[k]` are the places of a client, of the task created
by the k-th `pthread_create`, and of that task's player. `created` counts the
tasks and, as `AudioThread`, names the latest. `request[c]` is the message a
client is sending, `received[k]` the local `Msg` of a task, `CurrTrackID[k]`
that of a player. `bornEarly` and `remade` are history variables, explained in
section 4. `pwm` is the pitch the channel is set to, `enabled` whether it sounds.

Each action runs from one point visible to others to the next: `SendMessage` is
lock, test and write, unlock; `Audio_end` is the look at `MyState` with the store
of `Ending`, then send, join, second look with `Speaker_DeInit`, destroy, and the
final stores. `MsgMutex` is a thread, `Nobody`, or `Destroyed`: before
`Audio_init` has run for the first time it is a zeroed mutex and counts as free.
Unlocking does not ask who the owner is, as a default pthread mutex does not.
Calls that fail at their first test change nothing and are no step. `Audio_PlayTrack`
has no test of its track (`Audio.c:251-267`); clients pass one that `AudioTrackID.h`
names, not its end marker, and the player's test (`Audio.c:341`) is in `Player`.
`Audio_init` and `Audio_end` zero the ring with no lock while a late sender may be
writing: `Audio_initRaced` and `Audio_endRaced` are the two steps in which both happen
at once.

The mapping to `Jukebox`: what waits is the mailbox, then the message a task has taken
off the ring and not acted on (`Taken`), then the ring; the jukebox runs when `MyState`
is `Running`, no task was born early and no held mutex was made anew; its players are the tasks' players, and it is
open when `Speaker` is. A mailbox that is overwritten is a request lost for a later one.

Abstractions, each on the side of more behaviour unless marked:

* a track is the set of its pitches (`Notes`), and a player in a track sounds any of
  them, goes on, or falls silent by choice: counting is left to `Player`;
* a pitch that replaces another may be refused by the channel and is remembered all the
  same; `Pwm` and `Speaker` know which are, `Audio` lets any be. That any other write to
  the channel fails is left out (fewer behaviours);
* testing and taking a mutex is one step, so a thread asleep in
  `pthread_mutex_lock` while the mutex is destroyed is one that finds it
  destroyed (fewer behaviours: what glibc does with the sleeper is undefined);
* `pthread_mutex_init`, `pthread_cond_init` and `pthread_cond_destroy` succeed
  (fewer behaviours); `pthread_mutex_destroy` refuses a held mutex, and
  `Audio_start`'s `pthread_create` may fail;
* with `PlayerMayFail` the unchecked `pthread_create` of the player may fail too;
  the join of an id that was never written is then taken to fail (in C it is
  undefined);
* the unlocked `MsgQLen = 0` of `Audio_end` may be lost when a sender is writing;
* once a held `MsgMutex` has been made anew two threads may be inside the ring; its
  operations are still taken one by one (fewer behaviours), and nothing is claimed of
  the ring from then on.

### Player, Tune and Music

`Player` is the loop of `PlayerTaskLoop` alone: the audio task is its environment,
which asks for tracks at any time and at last says stop. `Melody` names the track
whose tables the two pointers point to, `Size` is the source's `Len`. A turn is
three actions, because the test of `PlayerState` and the exchange of the mailbox
are the two points where the task can come in between; the rest of a turn touches
only the player's own state and the channel. In `Audio` the same loop has the same
places (`PlayerCheck`, `PlayerFetch`, `PlayerSound`, `PlayerLeave`, `PlayerHush`),
with a set of pitches for a track and any number of turns. `Tune` has no ticks, pointers or
remembered pitches; its comment names the three things that the player does not
promise. `Music` has the tables as the default build compiles them, Ode to Joy
being the boot tune.

### Pwm and Speaker

`Pwm` is the channel: it refuses a period below its duty cycle (the documented rule
of the kernel's pwm class) and is otherwise taken to work. `Second` is a second in
its unit, the nanosecond, and a period is rounded down to it as the code does;
`PwmAssumption` (`f * f <= Second`) says that a rounded period still tells its
frequency, which holds for every audible one. `PwmInit` lets an earlier process have
left any tone.

In `Speaker`, `pc[c]` is the place of a caller; `pointer` the lines whose pointer is
not NULL, `requested` those the kernel has given to the process, `high` those driven
high. All of `OpenVolumePins` is one action, since it holds `VolumeMutex` and touches
only what that guards; its parameter n says how many of its four steps succeed.
`Speaker_SetVolume` is two, because its two writes can fail one by one.
`Speaker_PlayPitch` holds `SpeakerMutex` throughout and is one action.

### Panel

`Rows` stands for the seven readings and the brightness value, in the order in
which `main_menu` adds them. `label` is the set of rows with an LVGL label,
`obj` those whose `GuiObj.obj` points to it, `text` what the label's text pointer
points to: the row's own global string or the monitor's local one, which exists
while the row is in `alive`. `dirty` are the rows to redraw, `due` says that
LVGL's clock calls for a refresh. The buttons are the callbacks of
`lv_task_handler`. Colours and formats are in `Readings`; fonts, positions and the
backlight command are left out. A row's own string counts as one value, although
`brightness_monitor` assigns it without a lock. A change of a null label stops the
monitor inside LVGL with the lock held, or crashes the process.

### Battery

`line[l]` follows the three libgpiod calls for each line, `step` the six calls of
`InitializeBatteryGPIOs`, any of which may fail. The levels change at any time.
`value` is what the function returns after its comparison with NULL, `seen` is a
history variable that keeps the level that was read. libgpiod is outside: reading
a NULL line crashes, reading a line that was not requested fails, and any read
may fail. `Lines` has the two lines; the monitors' `ChangeLabel` is in `Panel`.

### Readings

One monitor of the five, with a file that may be missing, empty, hold no number or
hold a value, and that may change between the opening and the reading. A text is the
sequence of its digits, minus and point, because where the point goes depends on the
length of the numeral; `TextTellsValue` reads it back as a person does, digit by digit
from the left (`Meaning`), and compares it with the number scanned, in the file's own
unit; a text with a minus or a point out of place has no meaning. Units and the spelling of the health are
left out.

### Gui

A call locks `lvgl_lock`, works and unlocks, which is one step; between its start and
its lock, and between the five sections of `DrawQuadGridDisplay`, anybody may come. The
pointer to a new widget may go to any clients (`Shares`): in `core.cpp` it is stored in
a global object, and the thread that made a label is not the one that changes it. A
client forgets what it has removed or cleared itself and knows nothing of what others
do. LVGL's use of a deleted widget is undefined: `corrupt` is set and
the model ends. `GuiCleanUp` makes cancellations `pending`; the threads act on them at
POSIX's cancellation points, in `usleep` and in the waiting calls of
`lv_task_handler`, not at the mutex. `caught`, `robbed` and `spoilt` are history.
`DisableButton` (section 7), styles, fonts and
geometry are left out.

### BatteryLines

libgpiod is outside: a chip object is a port and the number of its opening, a handle an
object and a pin, and asking twice gives the same handle. A line of the kernel is
requested by one handle at a time, and closing a chip frees its handles. Every call may
fail. `power` is `power_lines[].line`, `GPIOs` the set that `MonitorForGPIOEvent` hands
to the comparison in `BatteryTaskLoop`. The use of a freed handle or of NULL is
undefined: `misused` is set and the model ends. `sound` and `closed` are history.

## 3. The runs

| Run | Question | Bounds |
|---|---|---|
| `audio_safety` | does anything of a session reach another, is anything used after its end, `Speaker_Init` and the creations of threads failing at will | 2 clients, 2 sessions, 2 slots, 1 track of two pitches; `Explored` |
| `audio_live` | is the ring a FIFO under all its users, does `MsgMutex` exclude, does `Audio_end` return, is the ring drained, the mailbox emptied | 2 clients, 1 session, 3 slots, 1 pitch, `Speaker_Init` never fails |
| `speaker` | lines, volume and tone under partial failures | 3 callers; pitches 1, 2 (an octave) and 3 (beyond) |
| `player` | does the loop play the tune, and stop | all tracks of `Music.h`, each note a twentieth of its turns and at least one, periods in nanoseconds |
| `panel` | start-up order, label lifetimes, redraws | 2 reading rows, one of which may throw, and brightness, one click above 60 |
| `readings` | do the labels say what the files said | both sides of every limit and of every length of a numeral |
| `gui` | who can disturb whom, does every call return | 2 clients, every call, 2 widgets |
| `battery` | failures of `Battery_Init`, the charging label | complete: two lines, every level |
| `battery_lines` | when is a line lost, when is a freed one used, is every edge read | 2 calls of `Battery_Init`, any number of all others |
| `panel_label`, `panel_text`, `battery_dock` | findings, see section 6 | |

Type invariants that are proved (section 5) are in a run only where they also carry a
hazard (`AudioTypeOK`: an unlocked `MsgQLen`); so are the invariants of `Player` that
`PlaysTune` implies, except `ReadsOwnTables`.

Why the bounds are enough. Two clients give every race between one call and
another that the code can have at one lock; a second session is where anything
left over by the first shows, and a third would start from the same clean state
(`CleanSlate`). With one track the order of requests does not show, only their number:
for two tracks `PlaysRequests` was checked in one session, two sessions of them being
too many states for this run, and the proof is for all. Liveness of the audio service is checked for one session, for the
same reason. A ring of two slots can be empty, part full, full and wrapped, so that
END is refused; three slots make every offset and every fill meet. For everything but
that order one track is enough in `Audio`, because no code there compares tracks;
`Player` has them all. Two pitches are what a refused period takes: one that sounds and
one that is asked for. After a held `MsgMutex` was made anew (`remade`) only the
sessions whose task got no player are followed (`Explored`): what is still claimed then is
about the mutex, which the player never touches. With three callers of the speaker, one can be inside `Speaker_Init` or `Speaker_DeInit`,
one in `Speaker_SetVolume`, and one arrive. All turns of a note but the first and the
last are alike. Readings are alike except that one format throws, so two rows show
each kind. With two widgets a client can share one and keep the other, and lose either
while it waits for the lock; a drawing takes one for its canvas. The second `Battery_Init` finds whatever the first has left, and
so does every later one. `CHECK_DEADLOCK FALSE` is said where the process may exit or
crash (`battery`, `panel*`), where undefined behaviour ends the model (`gui`,
`battery_lines`), where the player ends (`player`) and where a reading kills the
process (`readings`). Liveness runs use no symmetry.

### Fairness

`Audio!Fairness`: every thread is scheduled (weak fairness of each client inside
a call, each task, each player), and a thread that keeps asking for `MsgMutex`
gets it in the end (strong fairness of the actions that lock it). POSIX does not
promise the latter, but the holders release the mutex after a few instructions
and the default scheduler of Linux does not starve a runnable thread; without it
a client that calls `Audio_PlayTrack` without end could keep the task out. No
client has to call anything and no wake-up has to be spurious. `AudioMutex` needs
no strong fairness: the properties speak of calls that hold it.

`Panel!Fairness` and `Gui!Fairness`: strong fairness of the threads at `lvgl_lock`,
and this one is an assumption the code gives no ground for. `sleep(0.5)` sleeps 0
seconds (the argument is an `unsigned`, `core.cpp:189`) and the monitors come straight
back for the lock, so that a mutex which lets them overtake a waiting thread starves
it, and POSIX allows such a mutex. `DirtyIsDrawn` and `CallsReturn` therefore say that
no section keeps the lock, not that a thread is never starved of it; that hazard has no
property. The spurious wake-up of `main`, the throwing monitor, the buttons and the calls of
clients are not fair.

`Player!FairSpec` and `BatteryLines!FairSpec`: the one thread is scheduled (weak
fairness); nobody has to ask for a track, end the task or move a line.

## 4. What the checks show

*Ring.* The array implements the bounded FIFO, the unread rest of a dropped
queue included.

*Audio.* `Audio_end` always reaches the destroying part (its `ERROR_TASK_RUNNING`
is dead code); once it has sent, full ring or not, its task neither sleeps nor finds the
ring empty (`EndGoesThrough`). No task uses a destroyed mutex, a closed speaker is
silent even if a player comes late, no note is skipped as already played on a channel
that is off (`NoteNotSkipped`), and with the exceptions below there is one player
at a time, `Running` means that somebody plays, and nothing of a session is left for
the next. All told, the service is a jukebox (`PlaysRequests`): through ring, mailbox
and two threads no request is played twice or out of turn, and while the service runs
only an earlier one can be lost. What `Jukebox` leaves open is open in the code: whether
a second request replaces the first before it is heard, what becomes of requests when
the service ends, and whether a service that runs has an open speaker (after an
`Audio_end` before any `Audio_start`, whose `pthread_mutex_destroy` is refused, `MyState`
is still `Inited` with the speaker closed, and the next session is silent).
The conditions are part of the statements:

* `bornEarly`: `Audio_start` stores `Running` after `pthread_create` (`Audio.c:181,
  188`). A task that tests `MyState` before that finds `Inited`, leaves, and its
  `Ending` is overwritten by `Running`: the service accepts tracks that nobody
  plays. `OneVoice`, `RunningIsServed` and `CleanSlate` are violated if the condition
  is taken away; `NoteNotSkipped`, `QueueDrains` and `MailboxEmpties` have it because
  they rest on these. `EndGoesThrough`, `MutexOutlivesTask`, `MsgMutexExcludes` and
  `EndReturns` hold without it; so does `PlaysRequests`, whose jukebox then never says
  again that it runs.
* `remade`: after a failed `Speaker_Init` the state is `Ended` with `MsgMutex` alive, so
  a client that passed the test in `Audio_PlayTrack` long ago can hold it while the next
  `Audio_init` makes it anew, and zeroes the ring under it (`Audio_initRaced`).
  `MsgMutexExcludes` says that nothing else breaks the mutex. From then on two threads
  may be in the ring, and what rests on the mutex ends: the bounds of the ring in
  `AudioTypeOK`, the sleeping task of `EndGoesThrough`, and, through `Regular`, all that
  has `bornEarly` as a condition. `MutexOutlivesTask` holds but for one use: a task that
  died early, whom nobody joins, may be left before its unlock (`Audio.c:312`) when the
  mutex, freed by another thread's unlock, is destroyed.
* a player that was not created (`Audio.c:292`): a request then stays in the mailbox
  for the next session's player, which `CleanSlate` excepts.

*Player.* With the tables of `Music.h`, whichever track replaces another at whatever
note, the loop plays the tune: whole notes in order, each but the first at its own
pitch whatever sounded before, because the note before it ended in silence, and
silence between tracks. The first note may keep an older tone that is more than an
octave lower (below), and a tone of an earlier process may last until the first note.
The player stops when told, and tracks end.

*Speaker.* `InitedHasPins` and `DrivesLiveLines` survive every partial failure, and
concurrent volume calls do not mix their bits. What is not promised: after a failure
at the second line the first stays requested and every later `Speaker_Init` fails at
it. `ToneFollows` says exactly when the tone is right: over silence, and up to an
octave above the tone it replaces. A higher pitch straight after a lower one (a
track that replaces another in the middle of a note) has its period refused, and the
driver remembers it as played. `Speaker_DeInit` ends every tone.

*Panel.* The battery monitors find their labels because they start after the last
row, `main` does not end the process before `main_menu` is through, and changed labels
get drawn by a task that gets the lock. That what is drawn is a reading is not so: its
string may be gone (finding `panel_text`). `Stopped` names the two ends of these promises:
the process is gone, or `brightness_monitor` is stuck inside LVGL with `lvgl_lock`
held (finding `panel_label`), after which nothing is drawn any more.

*Readings.* The text tells the number that was read, rounded towards zero, the level
plus one. The process dies in the voltage's monitor only: below a tenth of a volt, or
of a file that is there and holds no number, but not of a missing one. A failure is
always red, and for the level, the voltage and the health it is no text that a value
could have. The last two rest on what the kernel's files hold (`KernelsOwn`): no negative
level, whose text could be that of the failure, no negative voltage, which with one
digit left would read ".-5", and no health called "Error".

*GUI library.* A client finds every widget it may still use, also when a call of it has
waited for the lock, until another client clears the screen or removes a widget they
share (`UnrobbedIsSafe`); no call deletes more than it was asked to, and no widget is
used after its end before such a robbery. The LCD test shows its four
rectangles unless another client clears the screen or draws its own. Every call
returns, with one exception: `GuiCleanUp` cancels while it holds the lock, and a task
that was waiting for that lock (`LockLostToWaiter`) goes into the handler with the
cancellation pending and may take the lock along. The callbacks of the application
are safe because none of them locks: the mutant with one that does hangs at once.

*Battery.* The process crashes on a missing line only after `Battery_Init` has
failed, whose result is dropped; the lock is free exactly if both lines are there;
the charging label is right. For any program: a freed handle is used only after the
clean-up or after a failed `Battery_Init`; the dock's line is lost only to the
clean-up, to a further `Battery_Init` that fails, or to `CloseGPIO` of the handle that
`Battery_Init` shares with `OpenGPIO`; every edge of a watched line is read, unless a
line whose request failed is watched with it (`CanWait`), which blocks the wait for
both.

Seen while modelling, with no run of its own, since no document says otherwise or
nothing reads the result:

* after `GuiCleanUp` has lost the lock with the task, the tick thread waits for it for
  ever, although `Gui.hpp:109` has it cancelled;
* `OpenGPIO` takes both lines from `in_dock_chip` (`Battery.cpp:151`), so that the
  charging line of the `power_lines` is a pin of the dock's port;
* `BatteryTaskLoop` compares for one line: if both have an edge, neither `IsInDock` nor
  `IsCharging` is renewed;
* `NOTE_2000_HZ` and `NOTE_2500_HZ` are exchanged (`Music.h:147-148`); `Music` has the
  values;
* voltages from 5.51 to 5.60 V are red between green and orange, and the orange of the
  temperature begins inside its green;
* a full battery reads 101%.

## 5. What is proved

The proofs hold for every value of the constants that satisfies the named assumptions
(`QueueAssumption`, `AudioAssumption`, `PwmAssumption`, `SpeakerAssumption`,
`TableAssumption`, `PanelAssumption`, `GuiAssumption`, `LinesAssumption`,
`ReadingsAssumption`), checked by TLAPS to the last leaf. Two theorems, `FailureTold` and
`TextIsTrue`, have `KernelsOwn` (section 4) as their hypothesis besides. Every invariant
and every action property of the passing runs is the statement of a theorem, and all three
refinements are.

* `AudioProofs`, the ring: `QueueTypeCorrect` and `RingImplementsFifo`. The type invariant
  is inductive by itself; the refinement is one lemma per operation, over arithmetic
  modulo the length of the ring.
* `AudioProofs`, the service. `IInv` is `TypeInv` and four parts, none of which is
  inductive alone: `OwnerInv` (a client inside init, start or end owns `AudioMutex`),
  `SessionInv` (only the newest task can be alive, and at which values of `MyState`),
  `EndInv` (what a client inside `Audio_end` may still find in `MyState`) and `MutexInv`
  (a destroyed mutex means no active task). `SessionInv` is needed because the task stores
  `Ending` without a lock: a property of `MyState` alone is broken by any task that could
  still be on its way there. `EndGetsThrough` adds `WakeInv` (a task
  sleeps only over an empty ring) and `SentInv` (after the send of `Audio_end` the task is
  awake and will find a message if it looks). `MutexExcludes` adds `ClosedInv` (a service
  that has ended has closed its speaker) and `LockInv`: until a held mutex is made anew
  every holder is between its lock and its unlock (`Excludes`), and if `Speaker_Init`
  never fails the mutex of an ended service is destroyed or was never used, so that
  `Audio_init` never makes one anew that a late caller holds; the lemmas `TaskMoves` and
  `ClientMoves` carry the steps that only move a thread, `RacedInit` and `RacedLockStep`
  those in which the ring is zeroed under a sender. `MutexSafe` needs `MutexInv` for the
  loop of the task and `Excludes` for its last unlock. `VoiceIsOne`, `RunningServed`,
  `SlateIsClean` and `NoteIsNotSkipped` rest on `VInv`, which adds, as long as `Regular`
  holds (neither exception is ever taken back, `RegularStays`): `PlaceInv` (a service that runs has a task not yet told
  to end, all older tasks have ended, and the newest too when nobody starts it or waits
  for it), `RingInv` (an END left on the ring by a session is gone before the next one
  runs; without it a task could be told to end by its predecessor's message),
  `PlayerInv` (where a player is while its task is somewhere) and `SoundInv` (mailbox,
  track and remembered pitch are as found when no player is left: a closed speaker
  ignores the last `Speaker_PlayPitch(0)`, so the pitch must be silent by then).
* `AudioProofs`, the refinement: `RequestsArePlayed`, that `Audio` implements `Jukebox`,
  with `VInv` as its invariant. First come facts about sequences (what removing an element
  does to the concatenation that `Waiting` is), then one lemma for each step of `Jukebox`
  that says which change of mailbox, `Taken` and ring it covers (`BoxAccepts`,
  `BoxLoses`, ...), then one for each kind of thread (`BoxClient`, `BoxTask`,
  `BoxPlayer`). The task's steps are the hard ones: an END it acts on, or drops in front of
  later requests, leaves the sequence only when the service does not run any more, which is
  `RingInv` and `PlaceInv` again.
* `PwmProofs`: `SettingInRange` and `PitchWritten`, the arithmetic of rounded periods:
  a pitch written sounds, or is more than an octave above the setting and leaves it.
* `SpeakerProofs`: the five properties of the run and the types. `IInv` has the owners
  of the two mutexes (`OwnerInv`), what `Speaker_Init` and `Speaker_DeInit` have found
  and done (`StateInv`), the lines (`PinInv`), half-set volumes (`LevelInv`) and the
  PWM channel (`PwmInv`: the duty cycle is at most half of the period, also after a
  refusal).
* `PlayerProofs`: `TablesAreOwn`, `NotesAreHeard`, `RestsHeard`, and `LoopPlaysTune`,
  the refinement, for any tables and any clock that tells their pitches apart. It
  needs the invariant of the pointers (`ReadsOwnTables`: the tables in use are the
  track's although `Len` is not reset with them), the silence between notes
  (`RestInv`), the remembered pitch (`ChannelInv`, `NoteInv`).
* `PanelProofs`: `ReadingsActive` and `MenuOutlived` for any number of rows. `StartInv`
  and `RowInv` follow the start-up (which rows have their label when `main_menu` is at
  which), `MonitorInv` says that a monitor runs only after the last of them.
* `BatteryProofs`: the three properties of the run, for any lines.
* `GuiProofs`: the three invariants of the run, for any clients and widgets. `TaskInv`
  follows the cancelled task (caught asleep it never comes to the handler again),
  `PointerInv` says that a call uses a pointer its client has and that nobody has one to
  the canvas of another; with it `LiveInv` says that what nobody else deletes is there
  and `HarmInv` that a use of a gone widget is the use of a client that was robbed.
  `QuadInv` has the drawings: the second of two drawings spoils the first when it
  empties the buffer and can only add to it afterwards.
* `BatteryIOProofs`, the lines: `LinesTypeCorrect`, `MisuseExplained` and `DockLineKept`,
  for any number of `Battery_Init`s. `HandleInv` says who has requested a line of the
  kernel, `PortInv` of which port and pin each pointer is (both power lines are of the
  dock's), `EarlyInv` that nothing is open before the first `Battery_Init`, `PointerInv`
  that every pointer is good until a call fails or the clean-up has run.
* `BatteryIOProofs`, the readings: `LowVoltageDies`, `FailureTold`, `TextIsTrue` and
  `LabelTellsValue` (two numbers with the same text are the same to the monitor), from
  `ReadInv`, which only follows the number from file to label. What they rest on is
  arithmetic of numerals of any length within an `int`: the digits of a number read from
  the left give it back (`StringReads`), and with the point put in, its scaled value
  (`PointReads`); how many digits it has (`WidthIsDigits`), so that a text too short for
  its point is exactly a voltage below a tenth of a volt. The inductions over the digits
  go by the least counterexample (lemma `Least`).

Only model-checked: liveness (`EndReturns`, `QueueDrains`, `MailboxEmpties`, `DirtyIsDrawn`,
`FallsSilent`, `Stops`, `CallsReturn`, `EdgesAreRead`; fairness and
leads-to are outside the prover's reach), and of course the findings, which are false. No
module declares a RECURSIVE operator.

## 6. Findings

* `panel_label`: `main_menu` does not keep the label of `brightness_value`
  (`core.cpp:540`), so the first press of a brightness button makes
  `brightness_monitor` change a NULL label (`core.cpp:155`), against `Gui.hpp:196`.
* `panel_text`: the label keeps a pointer to a string that is gone when it is drawn
  (`gui.cpp:597`, `core.cpp:188`), against `Gui.hpp:198`.
* `battery_dock`: the level 0 counts as a failed read (`Battery.cpp:312-314`), and 0
  is what `core.cpp:317` takes for a meter in the dock: the label never says "TRUE".

## 7. Not modelled, and the plan

Not modelled: the debug macros (`debug.hpp`: logging, no state), build files and built
objects (the sources of `PushButton.o` and `GeneralGpiod.o` are not in the repository),
LVGL's drawing (styles, fonts, geometry, the text of the tables). `DisableButton`
(`gui.cpp:461`) sets a state of a widget without `lvgl_lock`, its lock commented out:
made for callbacks, which hold the lock, and called by nobody; called from another
thread it is a data race inside LVGL, for whose outcome the sources give no bounds. A
`CreateScreen` that touches `button_style` before `DeclareStyles` (`gui.cpp:255`) is
inside LVGL too. `brightness_value.text` is assigned without a lock (`core.cpp:154`): a
torn string has no outcome short of the loss of the process. The brightness has no
range that a source states (`core.cpp:98`).

Plan, for what is left:

1. the composition of `Player` with `Audio` in place of its player: that a
   `Player` at the places `Audio` gives it makes no step which `Audio`'s own does not;
2. that `Speaker`, called by one player, is the speaker `Audio` takes for granted.
