------------------------------ MODULE Speaker ------------------------------
(***************************************************************************)
(* Speaker.c: the tone, whose channel is in Pwm, and the two enable lines   *)
(* that set its volume, called from any threads in any order.              *)
(*                                                                         *)
(* SpeakerMutex orders Init, PlayPitch and DeInit; VolumeMutex guards the  *)
(* lines, which SetVolume reaches without SpeakerMutex.  The GPIO chip is  *)
(* outside: it refuses a line that is requested already.  A call that      *)
(* returns at its first test changes nothing and is no step here.          *)
(***************************************************************************)
EXTENDS Pwm, FiniteSets

CONSTANT Caller     \* threads that call Speaker_*

Nobody == "nobody"

ASSUME SpeakerAssumption == Nobody \notin Caller

VARIABLES State,
          SpeakerMutex, VolumeMutex,    \* their owners
          pc, asked,                    \* each caller's place and its volume level
          chip,                         \* the chip is open
          pointer,                      \* lines whose pointer is not NULL
          requested, high,              \* lines requested, lines driven high
          level                         \* history: the volume last set, or Unknown

pinVars == <<chip, pointer, requested, high, level>>
vars == <<State, SpeakerMutex, VolumeMutex, pc, asked, pinVars, pitchVars>>

Unknown == -1
Lines   == {"en1", "en2"}
SPEAKER_MAX_VOLUME_LEVEL == 3

Init == /\ State = "SPEAKER_ENDED"
        /\ SpeakerMutex = Nobody
        /\ VolumeMutex = Nobody
        /\ pc = [c \in Caller |-> "idle"]
        /\ asked = [c \in Caller |-> 0]
        /\ chip = FALSE
        /\ pointer = {}
        /\ requested = {}
        /\ high = {}
        /\ level = Unknown
        /\ PwmInit

Goes(c, from, to) == pc[c] = from /\ pc' = [pc EXCEPT ![c] = to]

-----------------------------------------------------------------------------
\* The lines a volume level drives high: en2 is its low bit, en1 the other.
Bits(n) == {l \in Lines : \/ l = "en2" /\ n \in {1, 3}
                          \/ l = "en1" /\ n \in {2, 3}}

\* Mutant: the lines are driven whoever holds VolumeMutex.
VolumeIsFreeOrNot == TRUE

VolumeIsFree == VolumeMutex = Nobody

\* Speaker_SetVolume drives en2 first; a line not requested does not move, and
\* a requested one may fail to.
Speaker_SetVolume(c, n) ==
  /\ VolumeIsFree
  /\ Goes(c, "idle", "volume")
  /\ pointer = Lines
  /\ VolumeMutex' = c
  /\ asked' = [asked EXCEPT ![c] = n]
  /\ \/ /\ "en2" \in requested
        /\ high' = (high \ {"en2"}) \cup (Bits(n) \ {"en1"})
        /\ level' = n
     \/ UNCHANGED high /\ level' = Unknown
  /\ UNCHANGED <<State, SpeakerMutex, chip, pointer, requested, pitchVars>>

Speaker_SetVolumeEn1(c) ==
  /\ Goes(c, "volume", "idle")
  /\ VolumeMutex' = Nobody
  /\ \/ /\ "en1" \in requested
        /\ high' = (high \ {"en1"}) \cup (Bits(asked[c]) \ {"en2"})
        /\ UNCHANGED level
     \/ UNCHANGED high /\ level' = Unknown
  /\ UNCHANGED <<State, SpeakerMutex, asked, chip, pointer, requested, pitchVars>>

-----------------------------------------------------------------------------
\* The four steps of OpenVolumePins: get en1, request it, get en2, request it.
\* n of them succeed; a request of a line that is requested already does not.
OpenVolumePins(n) ==
  /\ VolumeIsFree
  /\ n >= 2 => "en1" \notin requested
  /\ n = 4 => "en2" \notin requested
  /\ chip' = TRUE
  /\ pointer' = CASE n = 0 -> pointer \ {"en1"}
                  [] n = 1 -> pointer \cup {"en1"}
                  [] n = 2 -> (pointer \cup {"en1"}) \ {"en2"}
                  [] OTHER -> Lines
  /\ LET got == (IF n >= 2 THEN {"en1"} ELSE {}) \cup (IF n = 4 THEN {"en2"} ELSE {})
     IN requested' = requested \cup got /\ high' = high \ got
  /\ level' = IF n = 4 THEN 0 ELSE Unknown

\* Mutant: the pointers outlive the lines.
PointersDroppedNot == pointer

PointersDropped == {}

LinesLowered == {}

\* CloseVolumePins: the chip goes, and its lines with it.
CloseVolumePins == /\ VolumeIsFree
                   /\ chip' = FALSE
                   /\ pointer' = PointersDropped
                   /\ requested' = {}
                   /\ high' = LinesLowered
                   /\ level' = Unknown

-----------------------------------------------------------------------------
\* Speaker_Init: the state is tested, the channel found and exported.
Speaker_Init(c) ==
  /\ SpeakerMutex = Nobody
  /\ State = "SPEAKER_ENDED"
  /\ Goes(c, "idle", "open")
  /\ SpeakerMutex' = c
  /\ UNCHANGED <<State, VolumeMutex, asked, pinVars, pitchVars>>

\* Mutant: a line that could not be requested goes unnoticed.
AllOpenOrSo(n) == n >= 3

AllOpen(n) == n = 4

Speaker_InitPins(c) ==
  /\ \E n \in 0 .. 4 : /\ OpenVolumePins(n)
                       /\ Goes(c, "open", IF AllOpen(n) THEN "inited" ELSE "failed")
  /\ UNCHANGED <<State, SpeakerMutex, VolumeMutex, asked, pitchVars>>

\* The chip cannot be opened; an open one is not opened again.
Speaker_InitNoChip(c) ==
  /\ VolumeIsFree
  /\ ~chip
  /\ Goes(c, "open", "failed")
  /\ UNCHANGED <<State, SpeakerMutex, VolumeMutex, asked, pinVars, pitchVars>>

Speaker_InitEnd(c) ==
  /\ \/ Goes(c, "inited", "idle") /\ State' = "SPEAKER_INITED"
     \/ Goes(c, "failed", "idle") /\ UNCHANGED State
  /\ SpeakerMutex' = Nobody
  /\ UNCHANGED <<VolumeMutex, asked, pinVars, pitchVars>>

-----------------------------------------------------------------------------
\* Speaker_PlayPitch; a pitch that is remembered is not written again.
Speaker_PlayPitch(f) ==
  /\ SpeakerMutex = Nobody
  /\ State = "SPEAKER_INITED"
  /\ f # CurrentFreq
  /\ WritePitch(f)
  /\ UNCHANGED <<State, SpeakerMutex, VolumeMutex, pc, asked, pinVars>>

\* Mutant: the output is not switched off.
SwitchOffNot == UNCHANGED pwmVars

SwitchOff == duty_cycle' = 0 /\ enable' = FALSE /\ UNCHANGED period

\* Speaker_DeInit: the tone first, then the lines; CurrentFreq stays.
Speaker_DeInit(c) ==
  /\ SpeakerMutex = Nobody
  /\ State = "SPEAKER_INITED"
  /\ Goes(c, "idle", "close")
  /\ SpeakerMutex' = c
  /\ SwitchOff
  /\ UNCHANGED <<State, VolumeMutex, asked, pinVars, CurrentFreq>>

Speaker_DeInitPins(c) ==
  /\ Goes(c, "close", "ended")
  /\ CloseVolumePins
  /\ UNCHANGED <<State, SpeakerMutex, VolumeMutex, asked, pitchVars>>

Speaker_DeInitEnd(c) ==
  /\ Goes(c, "ended", "idle")
  /\ State' = "SPEAKER_ENDED"
  /\ SpeakerMutex' = Nobody
  /\ UNCHANGED <<VolumeMutex, asked, pinVars, pitchVars>>

-----------------------------------------------------------------------------
Call(c) == \/ \E n \in 0 .. SPEAKER_MAX_VOLUME_LEVEL : Speaker_SetVolume(c, n)
           \/ Speaker_Init(c)
           \/ Speaker_DeInit(c)

Return(c) == \/ Speaker_SetVolumeEn1(c)
             \/ Speaker_InitPins(c) \/ Speaker_InitNoChip(c) \/ Speaker_InitEnd(c)
             \/ Speaker_DeInitPins(c) \/ Speaker_DeInitEnd(c)

Next == \/ \E c \in Caller : Call(c) \/ Return(c)
        \/ \E f \in Pitches : Speaker_PlayPitch(f)

Spec == Init /\ [][Next]_vars

-----------------------------------------------------------------------------
SpeakerTypeOK ==
  /\ State \in {"SPEAKER_INITED", "SPEAKER_ENDED"}
  /\ SpeakerMutex \in Caller \cup {Nobody}
  /\ VolumeMutex \in Caller \cup {Nobody}
  /\ pc \in [Caller -> {"idle", "volume", "open", "inited", "failed", "close", "ended"}]
  /\ asked \in [Caller -> 0 .. SPEAKER_MAX_VOLUME_LEVEL]
  /\ chip \in BOOLEAN
  /\ pointer \subseteq Lines
  /\ high \subseteq requested /\ requested \subseteq Lines
  /\ level \in {Unknown} \cup 0 .. SPEAKER_MAX_VOLUME_LEVEL
  /\ PwmTypeOK

\* While the speaker counts as initialised and nobody is closing it, both lines
\* are requested: no failed step of OpenVolumePins goes unnoticed (Speaker.c:113).
InitedHasPins ==
  State = "SPEAKER_INITED" /\ (\A c \in Caller : pc[c] # "ended") => requested = Lines

\* SetVolume drives only lines of an open chip (Speaker.c:184, 390): a pointer is
\* never left over from a chip that was closed in another thread.
DrivesLiveLines == \A c \in Caller : pc[c] = "volume" => chip /\ pointer = Lines

\* Once a volume is set, the lines carry it until the next call that changes
\* them, also when two threads set it at once (Speaker.c:179-208).
VolumeAsSet ==
  VolumeMutex = Nobody /\ level # Unknown
     => level = (IF "en1" \in high THEN 2 ELSE 0) + (IF "en2" \in high THEN 1 ELSE 0)

\* A pitch that is played sounds, over silence as well as over another tone,
\* unless it is more than an octave above that tone: then the period is refused
\* (Speaker.c:153) and the wrong tone stays under a remembered pitch that looks
\* right.
ToneFollows ==
  [][/\ CurrentFreq' # CurrentFreq
     /\ duty_cycle = 0 \/ CurrentFreq' <= 2 * Tone
     => Tone' = CurrentFreq']_vars

\* Whatever was playing, in this process or left by an earlier one, is over when
\* Speaker_DeInit is through (Speaker.c:238): no pitch comes between.
DeInitSilences ==
  [][State = "SPEAKER_INITED" /\ State' = "SPEAKER_ENDED" => Tone' = 0]_vars
=============================================================================
