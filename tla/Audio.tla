------------------------------- MODULE Audio -------------------------------
(***************************************************************************)
(* The audio service of Audio.c: any number of clients call its public     *)
(* functions from their own threads; Audio_start creates a task that takes *)
(* messages off the ring, and the task creates a player that sounds the    *)
(* requested track.                                                        *)
(*                                                                         *)
(* AudioMutex orders Audio_init, Audio_start and Audio_end; MsgMutex with  *)
(* MsgCond guards the ring; MyState, PlayerState and NextTrackID are       *)
(* atomics read and written with no lock.  A call that returns at its      *)
(* first test changes nothing and is no step here.                         *)
(***************************************************************************)
EXTENDS MsgQueue, FiniteSets

CONSTANTS Client,          \* threads that call Audio_*
          MaxTasks,        \* how many pthread_create calls of Audio_start succeed
          MaxTracks,       \* "no track" (AudioTrackID.h:36)
          Pitches, Notes,  \* pitches above 0, and those of each track's notes
          Silence,         \* pitch 0
          Nobody,          \* owner of a free mutex
          Destroyed,       \* MsgMutex after pthread_mutex_destroy
          SpeakerMayFail,  \* whether Speaker_Init can fail
          PlayerMayFail    \* whether the player's pthread_create can fail

Task == 1 .. MaxTasks

ASSUME AudioAssumption ==
  /\ MaxTasks \in Nat
  /\ SpeakerMayFail \in BOOLEAN
  /\ PlayerMayFail \in BOOLEAN
  /\ MaxTracks \notin Message
  /\ Notes \in [Tracks -> SUBSET Pitches]
  /\ Silence \notin Pitches
  /\ Nobody \notin Client \cup Task
  /\ Destroyed \notin Client \cup Task
  /\ Nobody # Destroyed
  /\ Client \cap Task = {}

VARIABLES MyState, PlayerState,   \* the two ComponentState atomics
          NextTrackID,            \* mailbox from the task to the player
          AudioMutex, MsgMutex,   \* their owners
          created,                \* tasks created so far
          cpc, request,           \* each client's place and the message it sends
          tpc, received,          \* each task's place and the message it took
          ppc, CurrTrackID,       \* each player's place and track
          Speaker,                \* State of Speaker.c
          CurrentFreq,            \* pitch Speaker.c remembers
          pwm, enabled,           \* pitch the channel is set to, whether it is on
          bornEarly,              \* history: a task looked at MyState before
                                  \* Audio_start had stored Running in it
          remade                  \* history: Audio_init made MsgMutex anew while
                                  \* a thread held it

atomicVars  == <<MyState, PlayerState, NextTrackID>>
clientVars  == <<AudioMutex, created, cpc, request, remade>>
taskVars    == <<tpc, received, bornEarly>>
playerVars  == <<ppc, CurrTrackID>>
speakerVars == <<Speaker, CurrentFreq, pwm, enabled>>
soundVars   == <<playerVars, speakerVars>>
vars == <<queueVars, atomicVars, MsgMutex, clientVars, taskVars, soundVars>>

ComponentState == {"Ended", "Inited", "Running", "Ending"}
Track == Tracks \cup {MaxTracks}
Pitch == Pitches \cup {Silence}

\* Places of a client, by the mutex it holds there; "lock" to "unlock" are
\* SendMessage, called by Audio_PlayTrack (no mutex) or Audio_end (AudioMutex).
SendPlace == {"lock", "send", "unlock"}
EndPlace  == {"end_join", "end_deinit", "end_destroy", "end_ok", "end_busy"}
ClientPlace == {"idle", "init_speaker", "start_publish"} \cup SendPlace \cup EndPlace

\* Places of a task, before and after it gives up its session at END:.
LoopPlace == {"begin", "check", "receive", "waiting", "wakeup", "process",
              "relock", "kill", "stop"}
TaskPlace == {"none", "unlock", "wind_down", "join", "done"} \cup LoopPlace

PlayerPlace == {"none", "failed", "check", "fetch", "sound", "leave", "hush", "done"}

Init == /\ QueueInit
        /\ MyState = "Ended"
        /\ PlayerState = "Ended"
        /\ NextTrackID = MaxTracks
        /\ AudioMutex = Nobody
        /\ MsgMutex = Nobody
        /\ created = 0
        /\ cpc = [c \in Client |-> "idle"]
        /\ request = [c \in Client |-> MaxTracks]
        /\ tpc = [k \in Task |-> "none"]
        /\ received = [k \in Task |-> MaxTracks]
        /\ ppc = [k \in Task |-> "none"]
        /\ CurrTrackID = [k \in Task |-> MaxTracks]
        /\ Speaker = "SPEAKER_ENDED"
        /\ CurrentFreq = Silence
        /\ pwm \in Pitch                         \* an earlier process may have
        /\ enabled \in BOOLEAN                   \* left a tone on the channel
        /\ enabled => pwm # Silence
        /\ bornEarly = FALSE
        /\ remade = FALSE

ClientGoes(c, from, to) == cpc[c] = from /\ cpc' = [cpc EXCEPT ![c] = to]
TaskGoes(k, from, to)   == tpc[k] = from /\ tpc' = [tpc EXCEPT ![k] = to]
PlayerGoes(k, from, to) == ppc[k] = from /\ ppc' = [ppc EXCEPT ![k] = to]

LockMsg(thread) == MsgMutex = Nobody /\ MsgMutex' = thread

\* A destroyed mutex refuses to be unlocked; a live one does not ask by whom.
UnlockMsg == MsgMutex' = IF MsgMutex = Destroyed THEN Destroyed ELSE Nobody

\* Mutant: the waiting task is not woken.
SignalLost == UNCHANGED tpc

\* pthread_cond_signal: some waiting task goes for the mutex.
Signal == IF \E k \in Task : tpc[k] = "waiting"
          THEN \E k \in Task : TaskGoes(k, "waiting", "wakeup")
          ELSE UNCHANGED tpc

\* pthread_create leaves the newest task in AudioThread.
AudioThread == created

-----------------------------------------------------------------------------
\* Speaker.c as the audio service sees it; each call runs under SpeakerMutex.

\* The channel is given a note, or its duty cycle zeroed.  A period shorter than
\* the old note's duty cycle is refused (module Pwm tells which), and the old
\* note goes on.
WritePitch(f) == /\ \/ pwm' = f
                    \/ Silence \notin {f, pwm} /\ UNCHANGED pwm
                 /\ enabled' = (f # Silence)

\* A pitch equal to the remembered one is not written; a pitch that was written
\* is remembered, refused or not.
Speaker_PlayPitch(f) ==
  IF Speaker = "SPEAKER_INITED" /\ f # CurrentFreq
  THEN /\ CurrentFreq' = f
       /\ WritePitch(f)
       /\ UNCHANGED Speaker
  ELSE UNCHANGED speakerVars

\* The output is switched off; the remembered pitch stays.
Speaker_DeInit ==
  IF Speaker = "SPEAKER_INITED"
  THEN /\ Speaker' = "SPEAKER_ENDED"
       /\ pwm' = Silence
       /\ enabled' = FALSE
       /\ UNCHANGED CurrentFreq
  ELSE UNCHANGED speakerVars

Speaker_InitSucceeds == /\ Speaker = "SPEAKER_ENDED"
                        /\ Speaker' = "SPEAKER_INITED"
                        /\ UNCHANGED <<CurrentFreq, pwm, enabled>>

Speaker_InitFails == /\ SpeakerMayFail \/ Speaker # "SPEAKER_ENDED"
                     /\ UNCHANGED speakerVars

-----------------------------------------------------------------------------
\* Both clients go on at once.
BothGo(c, from, to, d) == /\ cpc[c] = from
                          /\ cpc[d] = "send"
                          /\ cpc' = [cpc EXCEPT ![c] = to, ![d] = "unlock"]

\* pthread_mutex_init, held or not.
MsgMutexInit == /\ MsgMutex' = Nobody
                /\ remade' = (remade \/ MsgMutex \notin {Nobody, Destroyed})

\* Audio_init up to InitMessaging, which makes a new MsgMutex of the old one.
Audio_initBegin(c) ==
  /\ AudioMutex = Nobody
  /\ MyState = "Ended"
  /\ ClientGoes(c, "idle", "init_speaker")
  /\ AudioMutex' = c
  /\ InitMessaging
  /\ MsgMutexInit
  /\ UNCHANGED <<atomicVars, created, request, taskVars, soundVars>>

\* The same while a sender of the session before is in SendMessage: the ring is
\* zeroed with no lock.
Audio_initRaced(c, d) ==
  /\ AudioMutex = Nobody
  /\ MyState = "Ended"
  /\ BothGo(c, "idle", "init_speaker", d)
  /\ AudioMutex' = c
  /\ InitMessagingRaced(request[d])
  /\ Signal
  /\ MsgMutexInit
  /\ UNCHANGED <<atomicVars, created, request, received, bornEarly, soundVars>>

\* Audio_init from Speaker_Init to its end.
Audio_initFinish(c) ==
  /\ ClientGoes(c, "init_speaker", "idle")
  /\ \/ Speaker_InitSucceeds /\ MyState' = "Inited"
     \/ Speaker_InitFails /\ UNCHANGED MyState
  /\ AudioMutex' = Nobody
  /\ UNCHANGED <<queueVars, PlayerState, NextTrackID, MsgMutex, created, remade,
                 request, taskVars, playerVars>>

\* Mutant: AudioMutex is released before MyState is stored.
StartLocksNot(c) == UNCHANGED AudioMutex

StartLocks(c) == AudioMutex' = c

\* Audio_start when pthread_create succeeds; failing, it changes nothing.
Audio_startCreate(c) ==
  /\ AudioMutex = Nobody
  /\ MyState = "Inited"
  /\ created < MaxTasks
  /\ ClientGoes(c, "idle", "start_publish")
  /\ StartLocks(c)
  /\ created' = created + 1
  /\ tpc' = [tpc EXCEPT ![created'] = "begin"]
  /\ UNCHANGED <<queueVars, atomicVars, MsgMutex, request, remade, received,
                 bornEarly, soundVars>>

\* The task is running by now: only here does MyState say so.
Audio_startPublish(c) ==
  /\ ClientGoes(c, "start_publish", "idle")
  /\ MyState' = "Running"
  /\ AudioMutex' = Nobody
  /\ UNCHANGED <<queueVars, PlayerState, NextTrackID, MsgMutex, created, remade,
                 request, taskVars, soundVars>>

\* Audio_PlayTrack reads MyState, with no lock, before it calls SendMessage.
Audio_PlayTrack(c) ==
  /\ MyState = "Running"
  /\ ClientGoes(c, "idle", "lock")
  /\ \E t \in Tracks : request' = [request EXCEPT ![c] = t]
  /\ UNCHANGED <<queueVars, atomicVars, MsgMutex, AudioMutex, created, remade,
                 taskVars, soundVars>>

AfterSend(c) == IF request[c] = MSG_ID_END THEN "end_join" ELSE "idle"

SendMessageLock(c) ==
  /\ LockMsg(c)
  /\ ClientGoes(c, "lock", "send")
  /\ UNCHANGED <<queueVars, atomicVars, AudioMutex, created, remade, request,
                 taskVars, soundVars>>

\* pthread_mutex_lock fails with EINVAL: ERROR_MUTEX.
SendMessageRefused(c) ==
  /\ MsgMutex = Destroyed
  /\ ClientGoes(c, "lock", AfterSend(c))
  /\ request' = [request EXCEPT ![c] = MaxTracks]
  /\ UNCHANGED <<queueVars, atomicVars, MsgMutex, AudioMutex, created, remade,
                 taskVars, soundVars>>

\* The ring takes the message and the task is woken, unless the ring is full.
SendMessageEnqueue(c) ==
  /\ ClientGoes(c, "send", "unlock")
  /\ SendMessage(request[c])
  /\ IF QueueFull THEN UNCHANGED tpc ELSE Signal
  /\ UNCHANGED <<atomicVars, MsgMutex, AudioMutex, created, remade, request,
                 received, bornEarly, soundVars>>

SendMessageUnlock(c) ==
  /\ ClientGoes(c, "unlock", AfterSend(c))
  /\ UnlockMsg
  /\ request' = [request EXCEPT ![c] = MaxTracks]
  /\ UNCHANGED <<queueVars, atomicVars, AudioMutex, created, remade, taskVars,
                 soundVars>>

\* Mutant: MyState says Running until the task has ended.
AnnounceEndNot == UNCHANGED MyState

AnnounceEnd == MyState' = "Ending"

\* Audio_end up to SendMessage, or to Speaker_DeInit when no task runs.
Audio_endBegin(c) ==
  /\ AudioMutex = Nobody
  /\ AudioMutex' = c
  /\ \/ /\ MyState = "Running"
        /\ AnnounceEnd
        /\ ClientGoes(c, "idle", "lock")
        /\ request' = [request EXCEPT ![c] = MSG_ID_END]
     \/ /\ MyState \in {"Inited", "Ending"}
        /\ ClientGoes(c, "idle", "end_deinit")
        /\ UNCHANGED <<MyState, request>>
  /\ UNCHANGED <<queueVars, PlayerState, NextTrackID, MsgMutex, created, remade,
                 taskVars, soundVars>>

\* Mutant: the task is not waited for.
TaskGoneOrNot == TRUE

TaskGone == tpc[AudioThread] = "done"

\* pthread_join; whether the END message was accepted was not looked at.
Audio_endJoin(c) ==
  /\ ClientGoes(c, "end_join", "end_deinit")
  /\ TaskGone
  /\ UNCHANGED <<queueVars, atomicVars, MsgMutex, AudioMutex, created, remade,
                 request, taskVars, soundVars>>

\* The second look at MyState, then Speaker_DeInit, whose error is ignored.
Audio_endDeInit(c) ==
  /\ IF MyState \in {"Ending", "Inited"}
     THEN /\ ClientGoes(c, "end_deinit", "end_destroy")
          /\ Speaker_DeInit
          /\ UNCHANGED AudioMutex
     ELSE /\ ClientGoes(c, "end_deinit", "idle")   \* ERROR_TASK_RUNNING
          /\ AudioMutex' = Nobody
          /\ UNCHANGED speakerVars
  /\ UNCHANGED <<queueVars, atomicVars, MsgMutex, created, remade, request,
                 taskVars, playerVars>>

\* pthread_mutex_destroy refuses (EBUSY) a mutex that is held.
Audio_endDestroy(c) ==
  /\ \/ /\ MsgMutex \in {Nobody, Destroyed}
        /\ MsgMutex' = Destroyed
        /\ ClientGoes(c, "end_destroy", "end_ok")
     \/ /\ MsgMutex \notin {Nobody, Destroyed}
        /\ UNCHANGED MsgMutex
        /\ ClientGoes(c, "end_destroy", "end_busy")
  /\ UNCHANGED <<queueVars, atomicVars, AudioMutex, created, remade, request,
                 taskVars, soundVars>>

\* Mutant: the error is forgotten.
EndBusyForgotten == MyState' = "Ended"

EndBusy == UNCHANGED MyState

\* MsgQLen = 0 is stored with no lock: a sender inside SendMessage may store
\* over it.  MyState becomes Ended only if no call failed.
Audio_endFinish(c) ==
  /\ \/ ClientGoes(c, "end_ok", "idle") /\ MyState' = "Ended"
     \/ ClientGoes(c, "end_busy", "idle") /\ EndBusy
  /\ \/ DropMessages
     \/ (\E d \in Client : cpc[d] = "send") /\ UNCHANGED queueVars
  /\ AudioMutex' = Nobody
  /\ UNCHANGED <<PlayerState, NextTrackID, MsgMutex, created, remade, request,
                 taskVars, soundVars>>

\* The same where the store comes between the sender's write and its count.
Audio_endRaced(c, d) ==
  /\ \/ BothGo(c, "end_ok", "idle", d) /\ MyState' = "Ended"
     \/ BothGo(c, "end_busy", "idle", d) /\ EndBusy
  /\ DropMessagesRaced(request[d])
  /\ Signal
  /\ AudioMutex' = Nobody
  /\ UNCHANGED <<PlayerState, NextTrackID, MsgMutex, created, remade, request,
                 received, bornEarly, soundVars>>

-----------------------------------------------------------------------------
\* TaskLoop from its start to the loop: it locks MsgMutex and makes its player,
\* and does not look whether it got one.
TaskBegin(k) ==
  /\ LockMsg(k)
  /\ TaskGoes(k, "begin", "check")
  /\ PlayerState' = "Running"
  /\ \/ PlayerGoes(k, "none", "check")
     \/ PlayerMayFail /\ PlayerGoes(k, "none", "failed")
  /\ UNCHANGED <<queueVars, MyState, NextTrackID, clientVars, received, bornEarly,
                 CurrTrackID, speakerVars>>

\* while (MyState == Running)
TaskCheck(k) ==
  /\ IF MyState = "Running" THEN TaskGoes(k, "check", "receive")
                            ELSE TaskGoes(k, "check", "stop")
  /\ bornEarly' = (bornEarly \/ MyState = "Inited")
  /\ UNCHANGED <<queueVars, atomicVars, MsgMutex, clientVars, received, soundVars>>

\* A message is taken and MsgMutex unlocked.
TaskReceive(k) ==
  /\ GetMessage
  /\ TaskGoes(k, "receive", "process")
  /\ received' = [received EXCEPT ![k] = TopMessage]
  /\ UnlockMsg
  /\ UNCHANGED <<atomicVars, clientVars, bornEarly, soundVars>>

\* There is none: pthread_cond_wait.
TaskWait(k) ==
  /\ MsgQLen < 1
  /\ TaskGoes(k, "receive", "waiting")
  /\ UnlockMsg
  /\ UNCHANGED <<queueVars, atomicVars, clientVars, received, bornEarly, soundVars>>

\* pthread_cond_wait may return with no signal.
TaskSpuriousWakeup(k) ==
  /\ TaskGoes(k, "waiting", "wakeup")
  /\ UNCHANGED <<queueVars, atomicVars, MsgMutex, clientVars, received, bornEarly,
                 soundVars>>

\* pthread_cond_wait locks the mutex again; MyState is not looked at.
TaskWakeup(k) ==
  /\ LockMsg(k)
  /\ TaskGoes(k, "wakeup", "receive")
  /\ UNCHANGED <<queueVars, atomicVars, clientVars, received, bornEarly, soundVars>>

\* ProcessMessage with PlayTrackID: the mailbox is overwritten, read or not.
TaskProcess(k) ==
  /\ IF received[k] = MSG_ID_END
     THEN TaskGoes(k, "process", "kill") /\ UNCHANGED NextTrackID
     ELSE TaskGoes(k, "process", "relock") /\ NextTrackID' = received[k]
  /\ received' = [received EXCEPT ![k] = MaxTracks]
  /\ UNCHANGED <<queueVars, MyState, PlayerState, MsgMutex, clientVars, bornEarly,
                 soundVars>>

\* Mutant: END: is reached without the mutex.
TaskRelockNot(k) ==
  /\ \/ LockMsg(k) /\ TaskGoes(k, "relock", "check")
     \/ UNCHANGED MsgMutex /\ TaskGoes(k, "kill", "stop")
  /\ UNCHANGED <<queueVars, atomicVars, clientVars, received, bornEarly, soundVars>>

\* The mutex is locked again, to go round the loop or to END:.
TaskRelock(k) ==
  /\ LockMsg(k)
  /\ TaskGoes(k, "relock", "check") \/ TaskGoes(k, "kill", "stop")
  /\ UNCHANGED <<queueVars, atomicVars, clientVars, received, bornEarly, soundVars>>

\* END: MyState = Ending, whoever owns it by then.
TaskStop(k) ==
  /\ TaskGoes(k, "stop", "unlock")
  /\ MyState' = "Ending"
  /\ UNCHANGED <<queueVars, PlayerState, NextTrackID, MsgMutex, clientVars, received,
                 bornEarly, soundVars>>

TaskUnlock(k) ==
  /\ TaskGoes(k, "unlock", "wind_down")
  /\ UnlockMsg
  /\ UNCHANGED <<queueVars, atomicVars, clientVars, received, bornEarly, soundVars>>

StopPlayer == PlayerState' = "Ending"

TaskWindDown(k) ==
  /\ TaskGoes(k, "wind_down", "join")
  /\ StopPlayer
  /\ UNCHANGED <<queueVars, MyState, NextTrackID, MsgMutex, clientVars, received,
                 bornEarly, soundVars>>

\* Mutant: the player is not waited for.
PlayerGoneOrNot(k) == TRUE

PlayerGone(k) == ppc[k] \in {"done", "failed"}

\* The player is joined and PlayerState stored.  The join of a player there never
\* was is given an id nobody wrote; here it fails.
TaskJoin(k) ==
  /\ PlayerGone(k)
  /\ TaskGoes(k, "join", "done")
  /\ PlayerState' = "Ended"
  /\ UNCHANGED <<queueVars, MyState, NextTrackID, MsgMutex, clientVars, received,
                 bornEarly, soundVars>>

-----------------------------------------------------------------------------
\* while (PlayerState == Running), then usleep.
PlayerCheck(k) ==
  /\ IF PlayerState = "Running" THEN PlayerGoes(k, "check", "fetch")
                                ELSE PlayerGoes(k, "check", "leave")
  /\ UNCHANGED <<queueVars, atomicVars, MsgMutex, clientVars, taskVars, CurrTrackID,
                 speakerVars>>

\* Mutant: the request is read and stays in the mailbox.
MailboxRead == UNCHANGED NextTrackID

MailboxTaken == NextTrackID' = MaxTracks

\* atomic_exchange: a request replaces the track being played.
PlayerFetch(k) ==
  /\ PlayerGoes(k, "fetch", "sound")
  /\ CurrTrackID' = [CurrTrackID EXCEPT ![k] =
                       IF NextTrackID # MaxTracks THEN NextTrackID ELSE @]
  /\ MailboxTaken
  /\ UNCHANGED <<queueVars, MyState, PlayerState, MsgMutex, clientVars, taskVars,
                 speakerVars>>

\* The rest of the loop: a note begins, goes on, or ends, perhaps the last one.
\* Of the track only the pitches of its notes are told apart (module Player has
\* the notes).
PlayerSound(k) ==
  /\ PlayerGoes(k, "sound", "check")
  /\ \/ /\ CurrTrackID[k] # MaxTracks
        /\ \/ \E f \in Notes[CurrTrackID[k]] : Speaker_PlayPitch(f)
           \/ UNCHANGED speakerVars
        /\ UNCHANGED CurrTrackID
     \/ /\ Speaker_PlayPitch(Silence)
        /\ \/ UNCHANGED CurrTrackID
           \/ CurrTrackID' = [CurrTrackID EXCEPT ![k] = MaxTracks]
  /\ UNCHANGED <<queueVars, atomicVars, MsgMutex, clientVars, taskVars>>

\* Mutant: a request nobody played stays in the mailbox.
MailboxLeft == NextTrackID

MailboxEmptied == MaxTracks

\* After the loop: the mailbox is emptied.
PlayerLeave(k) ==
  /\ PlayerGoes(k, "leave", "hush")
  /\ NextTrackID' = MailboxEmptied
  /\ UNCHANGED <<queueVars, MyState, PlayerState, MsgMutex, clientVars, taskVars,
                 CurrTrackID, speakerVars>>

\* Speaker_PlayPitch(0), and the player returns; its locals are gone.
PlayerHush(k) ==
  /\ PlayerGoes(k, "hush", "done")
  /\ Speaker_PlayPitch(Silence)
  /\ CurrTrackID' = [CurrTrackID EXCEPT ![k] = MaxTracks]
  /\ UNCHANGED <<queueVars, atomicVars, MsgMutex, clientVars, taskVars>>

-----------------------------------------------------------------------------
\* A client begins a call of the public interface.
Call(c) == \/ Audio_initBegin(c)
           \/ \E d \in Client : Audio_initRaced(c, d)
           \/ Audio_startCreate(c)
           \/ Audio_PlayTrack(c)
           \/ Audio_endBegin(c)

\* A client goes on with the call it is in.
ClientStep(c) == \/ Audio_initFinish(c)
                 \/ Audio_startPublish(c)
                 \/ SendMessageLock(c)
                 \/ SendMessageRefused(c)
                 \/ SendMessageEnqueue(c)
                 \/ SendMessageUnlock(c)
                 \/ Audio_endJoin(c)
                 \/ Audio_endDeInit(c)
                 \/ Audio_endDestroy(c)
                 \/ Audio_endFinish(c)
                 \/ \E d \in Client : Audio_endRaced(c, d)

TaskStep(k) == \/ TaskBegin(k)
               \/ TaskCheck(k)
               \/ TaskReceive(k)
               \/ TaskWait(k)
               \/ TaskWakeup(k)
               \/ TaskProcess(k)
               \/ TaskRelock(k)
               \/ TaskStop(k)
               \/ TaskUnlock(k)
               \/ TaskWindDown(k)
               \/ TaskJoin(k)

PlayerStep(k) == \/ PlayerCheck(k)
                 \/ PlayerFetch(k)
                 \/ PlayerSound(k)
                 \/ PlayerLeave(k)
                 \/ PlayerHush(k)

Next == \/ \E c \in Client : Call(c) \/ ClientStep(c)
        \/ \E k \in Task : TaskStep(k) \/ TaskSpuriousWakeup(k) \/ PlayerStep(k)

\* Threads are scheduled, and a thread that keeps asking for MsgMutex is not
\* overtaken for ever.  Nobody has to call, and no wake-up has to be spurious.
Fairness == /\ \A c \in Client : WF_vars(ClientStep(c)) /\ SF_vars(SendMessageLock(c))
            /\ \A k \in Task : /\ WF_vars(TaskStep(k))
                               /\ SF_vars(TaskBegin(k) \/ TaskWakeup(k) \/ TaskRelock(k))
                               /\ WF_vars(PlayerStep(k))

Spec     == Init /\ [][Next]_vars
FairSpec == Spec /\ Fairness

-----------------------------------------------------------------------------
\* Once a held mutex is made anew two threads may be inside SendMessage, and the
\* bounds of the ring are gone with the rest of what MsgMutex is for.
AudioTypeOK == /\ ~remade => QueueTypeOK
               /\ MyState \in ComponentState
               /\ PlayerState \in ComponentState
               /\ NextTrackID \in Track
               /\ AudioMutex \in Client \cup {Nobody}
               /\ MsgMutex \in Client \cup Task \cup {Nobody, Destroyed}
               /\ created \in 0 .. MaxTasks
               /\ cpc \in [Client -> ClientPlace]
               /\ request \in [Client -> Message \cup {MaxTracks}]
               /\ tpc \in [Task -> TaskPlace]
               /\ received \in [Task -> Message \cup {MaxTracks}]
               /\ ppc \in [Task -> PlayerPlace]
               /\ CurrTrackID \in [Task -> Track]
               /\ Speaker \in {"SPEAKER_INITED", "SPEAKER_ENDED"}
               /\ CurrentFreq \in Pitch
               /\ pwm \in Pitch
               /\ enabled \in BOOLEAN
               /\ bornEarly \in BOOLEAN
               /\ remade \in BOOLEAN

\* A task that will still lock, wait on, hold or unlock MsgMutex.
Active(k) == tpc[k] \in LoopPlace \cup {"unlock"}

\* Audio_end has sent its message, if the ring took it, and waits or is about to.
EndSent(c) == \/ cpc[c] = "unlock" /\ request[c] = MSG_ID_END
              \/ cpc[c] = "end_join"

\* Audio_end goes through.  Once it has sent its message, full ring or not, no
\* task sleeps, and one that is about to look into the ring finds something
\* there (Audio.c:214-216, 296-299), as long as MsgMutex was not made anew under
\* a sender; and it never gets to its ERROR_TASK_RUNNING (Audio.c:242-245): when
\* it looks at MyState again the task is gone and has not been replaced, even
\* though the task stores MyState with no lock and Audio_start may overwrite it.
EndGoesThrough ==
  \A c \in Client :
    /\ EndSent(c) /\ ~remade =>
         \A k \in Task : /\ tpc[k] # "waiting"
                          /\ tpc[k] \in {"wakeup", "receive"} => MsgQLen > 0
    /\ cpc[c] = "end_deinit" => MyState \in {"Ending", "Inited"}

\* Audio_end destroys MsgMutex and MsgCond (Audio.c:226-230) only when no task
\* will use them again, joined or not.  One use is left: a task that died early
\* (it is not joined, Audio.c:207-216) at its last unlock (Audio.c:312), when the
\* mutex it held had been made anew before and its first owner unlocked it.
MutexOutlivesTask ==
  MsgMutex = Destroyed => \A k \in Task : Active(k) => remade /\ tpc[k] = "unlock"

\* MsgMutex does its work: whoever is between its lock and its unlock owns it,
\* one thread at a time; a thread outside owns nothing, whatever error it met.
\* It ends when Audio_init, called again after Speaker_Init has failed (Audio.c:
\* 149-159, MyState is Ended still), makes a new mutex of one that a late
\* Audio_PlayTrack holds; nothing else in the service does that.
MsgMutexExcludes ==
  /\ remade => SpeakerMayFail
  /\ ~remade =>
       /\ \A c \in Client : MsgMutex = c <=> cpc[c] \in {"send", "unlock"}
       /\ \A k \in Task : MsgMutex = k <=> tpc[k] \in {"check", "receive", "stop", "unlock"}

-----------------------------------------------------------------------------
(* What follows holds until a task looks at MyState before Audio_start has *)
(* stored Running in it (Audio.c:181-188, 293): then the task gives up at   *)
(* once and Audio_start announces a service nobody runs.  It holds until a  *)
(* held MsgMutex is made anew, too.                                         *)

Regular == ~bornEarly /\ ~remade

Alive(k) == ppc[k] \notin {"none", "failed", "done"}

\* There is one voice: a player of an earlier session is gone before the next
\* session has one, so two players never share the mailbox and the speaker.
OneVoice == Regular => \A j, k \in Task : Alive(j) /\ Alive(k) => j = k

\* MyState = Running, the promise on which Audio_PlayTrack accepts a track,
\* is kept: the task is in its loop, it does not sleep while the ring holds a
\* message, and its player, if there is one, is told to play.
RunningIsServed ==
  Regular /\ MyState = "Running" =>
     /\ tpc[AudioThread] \in LoopPlace \ {"kill", "stop"}
     /\ tpc[AudioThread] = "waiting" => MsgQLen = 0
     /\ tpc[AudioThread] # "begin" =>
           /\ PlayerState = "Running"
           /\ ppc[AudioThread] \in {"failed", "check", "fetch", "sound"}

\* Every task so far got its player.
PlayersMade == \A k \in Task : ppc[k] # "failed"

\* Between sessions nothing of the last one is left for the next: no request in
\* the mailbox, no note remembered as sounding, no thread.  A request made to a
\* task without a player (Audio.c:292) does stay, and the next player sounds it.
CleanSlate ==
  Regular /\ MyState \in {"Ended", "Inited"} =>
     /\ PlayersMade => NextTrackID = MaxTracks /\ CurrentFreq = Silence
     /\ AudioMutex = Nobody => \A k \in 1 .. created : tpc[k] = "done" /\ ~Alive(k)

\* Speaker_PlayPitch may skip a write (Speaker.c:141), and the pitch it remembers
\* is kept over Speaker_DeInit and Speaker_Init: yet it never skips a note while
\* the channel is off, in this session or the next.  Which note sounds is another
\* matter, for a refused period is remembered too (Speaker.c:153, 168).
NoteNotSkipped ==
  Regular /\ Speaker = "SPEAKER_INITED" /\ CurrentFreq # Silence
    => enabled /\ pwm # Silence

-----------------------------------------------------------------------------
\* What was accepted and not played, oldest first: the mailbox, the message the
\* task has in hand, and the ring.
Mailbox == IF NextTrackID = MaxTracks THEN <<>> ELSE <<NextTrackID>>
Taken   == IF created > 0 /\ tpc[AudioThread] = "process" THEN <<received[AudioThread]>>
                                                         ELSE <<>>
Waiting == Mailbox \o Taken \o Contents

Box == INSTANCE Jukebox WITH
  Stop    <- MSG_ID_END,
  Player  <- Task,
  running <- MyState = "Running" /\ Regular,
  waiting <- Waiting,
  playing <- CurrTrackID,
  open    <- Speaker = "SPEAKER_INITED",
  tone    <- pwm,
  on      <- enabled

\* The service, with its threads, its ring and its mailbox, plays what it accepts
\* in the order of acceptance, never twice, nothing else, and nothing with the
\* speaker closed; and while it runs the last request it accepted is not lost.
\* A step that makes a held MsgMutex anew keeps no promise about the ring.
PlaysRequests == Box!BoxInit /\ [][Box!BoxNext \/ remade']_Box!boxVars

-----------------------------------------------------------------------------
\* Audio_end returns (Audio.c:195-249), also when the ring was full and its END
\* message lost, when two clients call it, and when the task died early.
EndReturns == \A c \in Client : AudioMutex = c ~> AudioMutex # c

\* An accepted message is taken off the ring, or the session ends: the task
\* sleeps through no signal (Audio.c:296-299, 574).
QueueDrains == \A i \in Slots :
  MsgQLen > 0 /\ TopMsgIndex = i /\ MyState = "Running" /\ Regular
    ~> TopMsgIndex # i \/ MyState # "Running" \/ ~Regular

\* A request in the mailbox is fetched by the player or withdrawn as it leaves.
MailboxEmpties == NextTrackID # MaxTracks ~> NextTrackID = MaxTracks \/ ~Regular
=============================================================================
