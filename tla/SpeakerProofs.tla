--------------------------- MODULE SpeakerProofs ---------------------------
(***************************************************************************)
(* Proofs about Speaker.tla, for any callers and any pitches.              *)
(*                                                                         *)
(* The inductive invariant says who holds which mutex: a caller is past    *)
(* the lock of Init or DeInit exactly while it owns SpeakerMutex, and in   *)
(* the middle of SetVolume exactly while it owns VolumeMutex.  From that,  *)
(* what a caller has found when it locked still holds when it goes on.     *)
(***************************************************************************)
EXTENDS Speaker, PwmProofs

StatePlace == {"open", "inited", "failed", "close", "ended"}

TypeInv ==
  /\ State \in {"SPEAKER_INITED", "SPEAKER_ENDED"}
  /\ SpeakerMutex \in Caller \cup {Nobody}
  /\ VolumeMutex \in Caller \cup {Nobody}
  /\ pc \in [Caller -> {"idle", "volume"} \cup StatePlace]
  /\ asked \in [Caller -> 0 .. SPEAKER_MAX_VOLUME_LEVEL]
  /\ pointer \subseteq Lines
  /\ requested \subseteq Lines
  /\ high \subseteq requested
  /\ level \in {Unknown} \cup 0 .. SPEAKER_MAX_VOLUME_LEVEL

FlagInv == chip \in BOOLEAN /\ enable \in BOOLEAN

\* The mutexes are held by those who are between their lock and unlock.
OwnerInv ==
  \A c \in Caller : /\ pc[c] \in StatePlace <=> SpeakerMutex = c
                    /\ pc[c] = "volume" <=> VolumeMutex = c

\* What Init and DeInit have found and done stays so until they return.
StateInv ==
  \A c \in Caller :
    /\ pc[c] \in {"open", "inited", "failed"} => State = "SPEAKER_ENDED"
    /\ pc[c] \in {"close", "ended"} => State = "SPEAKER_INITED"
    /\ pc[c] = "inited" => requested = Lines
    /\ pc[c] \in {"close", "ended"} => duty_cycle = 0

\* The lines are there while a volume is being set.
PinInv ==
  /\ pointer # {} => chip
  /\ \A c \in Caller : pc[c] = "volume" => pointer = Lines
  /\ InitedHasPins

\* A known volume is on the lines, or half of it while it is being set.
LevelInv ==
  /\ VolumeMutex # Nobody /\ level # Unknown
        => /\ level = asked[VolumeMutex]
           /\ "en2" \in high <=> level \in {1, 3}
  /\ VolumeMutex = Nobody /\ level # Unknown
        => /\ "en2" \in high <=> level \in {1, 3}
           /\ "en1" \in high <=> level \in {2, 3}

IInv == TypeInv /\ PwmInv /\ FlagInv /\ OwnerInv /\ StateInv /\ PinInv /\ LevelInv

-----------------------------------------------------------------------------
\* What the proofs need of the constants.
LEMMA Constants == Nobody \notin Caller /\ Second \in Nat /\ 0 \in Pitches
  BY SpeakerAssumption, PwmAssumption

\* A volume is driven on en2 exactly if it is odd, on en1 exactly from 2 up.
LEMMA BitsOfVolume ==
  \A n \in 0 .. SPEAKER_MAX_VOLUME_LEVEL :
     /\ Bits(n) \subseteq Lines
     /\ "en2" \in Bits(n) <=> n \in {1, 3}
     /\ "en1" \in Bits(n) <=> n \in {2, 3}
  BY DEF Bits, Lines

LEMMA InitInv == Init => IInv
  <1> SUFFICES ASSUME Init PROVE IInv
    OBVIOUS
  <1>1. TypeInv
    BY Constants DEF Init, TypeInv, StatePlace, Lines, Unknown,
                     SPEAKER_MAX_VOLUME_LEVEL
  <1>2. PwmInv
    BY PwmInitInv DEF Init
  <1>3. OwnerInv /\ StateInv
    BY Constants DEF Init, OwnerInv, StateInv, StatePlace
  <1>4. PinInv /\ LevelInv
    BY DEF Init, PinInv, LevelInv, InitedHasPins
  <1>5. FlagInv
    BY Zenon DEF Init, PwmInit, FlagInv
  <1> QED  BY <1>1, <1>2, <1>3, <1>4, <1>5 DEF IInv

LEMMA Speaker_SetVolumeInv ==
  ASSUME IInv, NEW c \in Caller, NEW n \in 0 .. SPEAKER_MAX_VOLUME_LEVEL, Speaker_SetVolume(c, n)
  PROVE  IInv'
  <1> USE Constants DEF Speaker_SetVolume, Goes, VolumeIsFree, pitchVars, pwmVars, IInv
  <1>1. TypeInv'
    <2>1. high' \subseteq requested'
      BY BitsOfVolume DEF TypeInv, Lines
    <2>2. pc' \in [Caller -> {"idle", "volume"} \cup StatePlace]
      BY DEF TypeInv
    <2>3. /\ asked' \in [Caller -> 0 .. SPEAKER_MAX_VOLUME_LEVEL]
          /\ level' \in {Unknown} \cup 0 .. SPEAKER_MAX_VOLUME_LEVEL
      BY DEF TypeInv
    <2>4. QED
      BY <2>1, <2>2, <2>3 DEF TypeInv
  <1>2. PwmInv'
    BY DEF PwmInv
  <1>3. OwnerInv'
    BY DEF OwnerInv, TypeInv, StatePlace
  <1>4. StateInv'
    BY DEF StateInv, OwnerInv, TypeInv, StatePlace, Lines, PwmInv
  <1>5. PinInv'
    BY DEF PinInv, InitedHasPins, StateInv, OwnerInv, TypeInv, StatePlace, Lines
  <1>6. LevelInv'
    BY BitsOfVolume DEF LevelInv, OwnerInv, TypeInv, StatePlace, Lines, Unknown
  <1>7. FlagInv'
    BY Zenon DEF FlagInv
  <1> QED  BY <1>1, <1>2, <1>3, <1>4, <1>5, <1>6, <1>7

LEMMA Speaker_SetVolumeEn1Inv ==
  ASSUME IInv, NEW c \in Caller, Speaker_SetVolumeEn1(c)
  PROVE  IInv'
  <1> USE Constants DEF Speaker_SetVolumeEn1, Goes, pitchVars, pwmVars, IInv
  <1>1. TypeInv'
    BY BitsOfVolume DEF TypeInv, StatePlace, Lines, Unknown, SPEAKER_MAX_VOLUME_LEVEL
  <1>2. PwmInv'
    BY DEF PwmInv
  <1>3. OwnerInv'
    BY DEF OwnerInv, TypeInv, StatePlace
  <1>4. StateInv'
    BY DEF StateInv, OwnerInv, TypeInv, StatePlace, Lines, PwmInv
  <1>5. PinInv'
    BY DEF PinInv, InitedHasPins, StateInv, OwnerInv, TypeInv, StatePlace, Lines
  <1>6. LevelInv'
    BY BitsOfVolume DEF LevelInv, OwnerInv, TypeInv, StatePlace, Lines, Unknown
  <1>7. FlagInv'
    BY Zenon DEF FlagInv
  <1> QED  BY <1>1, <1>2, <1>3, <1>4, <1>5, <1>6, <1>7

LEMMA Speaker_InitInv ==
  ASSUME IInv, NEW c \in Caller, Speaker_Init(c)
  PROVE  IInv'
  <1> USE Constants DEF Speaker_Init, Goes, pinVars, pitchVars, pwmVars, IInv
  <1>1. TypeInv'
    BY BitsOfVolume DEF TypeInv, StatePlace, Lines, Unknown, SPEAKER_MAX_VOLUME_LEVEL
  <1>2. PwmInv'
    BY DEF PwmInv
  <1>3. OwnerInv'
    BY DEF OwnerInv, TypeInv, StatePlace
  <1>4. StateInv'
    BY DEF StateInv, OwnerInv, TypeInv, StatePlace, Lines, PwmInv
  <1>5. PinInv'
    BY DEF PinInv, InitedHasPins, StateInv, OwnerInv, TypeInv, StatePlace, Lines
  <1>6. LevelInv'
    BY BitsOfVolume DEF LevelInv, OwnerInv, TypeInv, StatePlace, Lines, Unknown
  <1>7. FlagInv'
    BY Zenon DEF FlagInv
  <1> QED  BY <1>1, <1>2, <1>3, <1>4, <1>5, <1>6, <1>7

LEMMA Speaker_InitPinsInv ==
  ASSUME IInv, NEW c \in Caller, Speaker_InitPins(c)
  PROVE  IInv'
  <1> USE Constants DEF Speaker_InitPins, Goes, OpenVolumePins, VolumeIsFree, AllOpen, pitchVars, pwmVars, IInv
  <1>1. TypeInv'
    BY BitsOfVolume DEF TypeInv, StatePlace, Lines, Unknown, SPEAKER_MAX_VOLUME_LEVEL
  <1>2. PwmInv'
    BY DEF PwmInv
  <1>3. OwnerInv'
    BY DEF OwnerInv, TypeInv, StatePlace
  <1>4. StateInv'
    BY DEF StateInv, OwnerInv, TypeInv, StatePlace, Lines, PwmInv
  <1>5. PinInv'
    BY DEF PinInv, InitedHasPins, StateInv, OwnerInv, TypeInv, StatePlace, Lines
  <1>6. LevelInv'
    BY BitsOfVolume DEF LevelInv, OwnerInv, TypeInv, StatePlace, Lines, Unknown
  <1>7. FlagInv'
    BY Zenon DEF FlagInv
  <1> QED  BY <1>1, <1>2, <1>3, <1>4, <1>5, <1>6, <1>7

LEMMA Speaker_InitNoChipInv ==
  ASSUME IInv, NEW c \in Caller, Speaker_InitNoChip(c)
  PROVE  IInv'
  <1> USE Constants DEF Speaker_InitNoChip, Goes, VolumeIsFree, pinVars, pitchVars, pwmVars, IInv
  <1>1. TypeInv'
    BY BitsOfVolume DEF TypeInv, StatePlace, Lines, Unknown, SPEAKER_MAX_VOLUME_LEVEL
  <1>2. PwmInv'
    BY DEF PwmInv
  <1>3. OwnerInv'
    BY DEF OwnerInv, TypeInv, StatePlace
  <1>4. StateInv'
    BY DEF StateInv, OwnerInv, TypeInv, StatePlace, Lines, PwmInv
  <1>5. PinInv'
    BY DEF PinInv, InitedHasPins, StateInv, OwnerInv, TypeInv, StatePlace, Lines
  <1>6. LevelInv'
    BY BitsOfVolume DEF LevelInv, OwnerInv, TypeInv, StatePlace, Lines, Unknown
  <1>7. FlagInv'
    BY Zenon DEF FlagInv
  <1> QED  BY <1>1, <1>2, <1>3, <1>4, <1>5, <1>6, <1>7

LEMMA Speaker_InitEndInv ==
  ASSUME IInv, NEW c \in Caller, Speaker_InitEnd(c)
  PROVE  IInv'
  <1> USE Constants DEF Speaker_InitEnd, Goes, pinVars, pitchVars, pwmVars, IInv
  <1>1. TypeInv'
    BY BitsOfVolume DEF TypeInv, StatePlace, Lines, Unknown, SPEAKER_MAX_VOLUME_LEVEL
  <1>2. PwmInv'
    BY DEF PwmInv
  <1>3. OwnerInv'
    BY DEF OwnerInv, TypeInv, StatePlace
  <1>4. StateInv'
    BY DEF StateInv, OwnerInv, TypeInv, StatePlace, Lines, PwmInv
  <1>5. PinInv'
    BY DEF PinInv, InitedHasPins, StateInv, OwnerInv, TypeInv, StatePlace, Lines
  <1>6. LevelInv'
    BY BitsOfVolume DEF LevelInv, OwnerInv, TypeInv, StatePlace, Lines, Unknown
  <1>7. FlagInv'
    BY Zenon DEF FlagInv
  <1> QED  BY <1>1, <1>2, <1>3, <1>4, <1>5, <1>6, <1>7

LEMMA Speaker_DeInitInv ==
  ASSUME IInv, NEW c \in Caller, Speaker_DeInit(c)
  PROVE  IInv'
  <1> USE Constants DEF Speaker_DeInit, Goes, SwitchOff, pinVars, IInv
  <1>1. TypeInv'
    BY BitsOfVolume DEF TypeInv, StatePlace, Lines, Unknown, SPEAKER_MAX_VOLUME_LEVEL
  <1>2. PwmInv'
    BY DEF PwmInv
  <1>3. OwnerInv'
    BY DEF OwnerInv, TypeInv, StatePlace
  <1>4. StateInv'
    BY DEF StateInv, OwnerInv, TypeInv, StatePlace, Lines, PwmInv
  <1>5. PinInv'
    BY DEF PinInv, InitedHasPins, StateInv, OwnerInv, TypeInv, StatePlace, Lines
  <1>6. LevelInv'
    BY BitsOfVolume DEF LevelInv, OwnerInv, TypeInv, StatePlace, Lines, Unknown
  <1>7. FlagInv'
    BY Zenon DEF FlagInv
  <1> QED  BY <1>1, <1>2, <1>3, <1>4, <1>5, <1>6, <1>7

LEMMA Speaker_DeInitPinsInv ==
  ASSUME IInv, NEW c \in Caller, Speaker_DeInitPins(c)
  PROVE  IInv'
  <1> USE Constants DEF Speaker_DeInitPins, Goes, CloseVolumePins, PointersDropped, LinesLowered, VolumeIsFree, pitchVars, pwmVars, IInv
  <1>1. TypeInv'
    BY BitsOfVolume DEF TypeInv, StatePlace, Lines, Unknown, SPEAKER_MAX_VOLUME_LEVEL
  <1>2. PwmInv'
    BY DEF PwmInv
  <1>3. OwnerInv'
    BY DEF OwnerInv, TypeInv, StatePlace
  <1>4. StateInv'
    BY DEF StateInv, OwnerInv, TypeInv, StatePlace, Lines, PwmInv
  <1>5. PinInv'
    BY DEF PinInv, InitedHasPins, StateInv, OwnerInv, TypeInv, StatePlace, Lines
  <1>6. LevelInv'
    BY BitsOfVolume DEF LevelInv, OwnerInv, TypeInv, StatePlace, Lines, Unknown
  <1>7. FlagInv'
    BY Zenon DEF FlagInv
  <1> QED  BY <1>1, <1>2, <1>3, <1>4, <1>5, <1>6, <1>7

LEMMA Speaker_DeInitEndInv ==
  ASSUME IInv, NEW c \in Caller, Speaker_DeInitEnd(c)
  PROVE  IInv'
  <1> USE Constants DEF Speaker_DeInitEnd, Goes, pinVars, pitchVars, pwmVars, IInv
  <1>1. TypeInv'
    BY BitsOfVolume DEF TypeInv, StatePlace, Lines, Unknown, SPEAKER_MAX_VOLUME_LEVEL
  <1>2. PwmInv'
    BY DEF PwmInv
  <1>3. OwnerInv'
    BY DEF OwnerInv, TypeInv, StatePlace
  <1>4. StateInv'
    BY DEF StateInv, OwnerInv, TypeInv, StatePlace, Lines, PwmInv
  <1>5. PinInv'
    BY DEF PinInv, InitedHasPins, StateInv, OwnerInv, TypeInv, StatePlace, Lines
  <1>6. LevelInv'
    BY BitsOfVolume DEF LevelInv, OwnerInv, TypeInv, StatePlace, Lines, Unknown
  <1>7. FlagInv'
    BY Zenon DEF FlagInv
  <1> QED  BY <1>1, <1>2, <1>3, <1>4, <1>5, <1>6, <1>7

LEMMA Speaker_PlayPitchInv ==
  ASSUME IInv, NEW f \in Pitches, Speaker_PlayPitch(f)
  PROVE  IInv'
  <1> USE Constants DEF Speaker_PlayPitch, pinVars, IInv
  <1>1. TypeInv'
    BY BitsOfVolume DEF TypeInv, StatePlace, Lines, Unknown, SPEAKER_MAX_VOLUME_LEVEL
  <1>2. PwmInv'
    BY WritePitchInv
  <1>3. OwnerInv'
    BY DEF OwnerInv, TypeInv, StatePlace
  <1>4. StateInv'
    BY Constants DEF WritePitch, StateInv, OwnerInv, TypeInv, StatePlace, Lines, PwmInv
  <1>5. PinInv'
    BY DEF PinInv, InitedHasPins, StateInv, OwnerInv, TypeInv, StatePlace, Lines
  <1>6. LevelInv'
    BY BitsOfVolume DEF LevelInv, OwnerInv, TypeInv, StatePlace, Lines, Unknown
  <1>7. FlagInv'
    BY Zenon DEF FlagInv, WritePitch
  <1> QED  BY <1>1, <1>2, <1>3, <1>4, <1>5, <1>6, <1>7

LEMMA NextInv == IInv /\ [Next]_vars => IInv'
  <1> SUFFICES ASSUME IInv, [Next]_vars PROVE IInv'
    OBVIOUS
  <1>1. ASSUME NEW c \in Caller, Call(c) PROVE IInv'
    BY <1>1, Speaker_SetVolumeInv, Speaker_InitInv, Speaker_DeInitInv DEF Call
  <1>2. ASSUME NEW c \in Caller, Return(c) PROVE IInv'
    BY <1>2, Speaker_SetVolumeEn1Inv, Speaker_InitPinsInv, Speaker_InitNoChipInv,
       Speaker_InitEndInv, Speaker_DeInitPinsInv, Speaker_DeInitEndInv DEF Return
  <1>3. ASSUME NEW f \in Pitches, Speaker_PlayPitch(f) PROVE IInv'
    BY <1>3, Speaker_PlayPitchInv
  <1>4. CASE UNCHANGED vars
    <2> USE <1>4 DEF vars, pinVars, pitchVars, pwmVars, IInv
    <2>1. TypeInv' /\ PwmInv'
      BY DEF TypeInv, PwmInv
    <2>2. FlagInv'
      BY Zenon DEF FlagInv
    <2>3. OwnerInv' /\ StateInv'
      BY DEF OwnerInv, StateInv
    <2>4. PinInv' /\ LevelInv'
      BY DEF PinInv, InitedHasPins, LevelInv
    <2> QED  BY <2>1, <2>2, <2>3, <2>4
  <1> QED  BY <1>1, <1>2, <1>3, <1>4 DEF Next

THEOREM Invariance == Spec => []IInv
  BY InitInv, NextInv, PTL DEF Spec

-----------------------------------------------------------------------------
\* The mutexes have owners that are where they should be, the lines that are
\* high are requested, the duty cycle fits in its period (Speaker.c).
THEOREM SpeakerTypeCorrect == Spec => []SpeakerTypeOK
  <1>1. IInv => SpeakerTypeOK
    <2> SUFFICES ASSUME IInv PROVE SpeakerTypeOK
      OBVIOUS
    <2>1. chip \in BOOLEAN /\ PwmTypeOK
      <3>1. chip \in BOOLEAN
        BY Zenon DEF IInv, FlagInv
      <3>2. enable \in BOOLEAN
        BY Zenon DEF IInv, FlagInv
      <3> QED  BY <3>1, <3>2, Constants DEF IInv, PwmInv, PwmTypeOK
    <2> QED  BY <2>1 DEF IInv, TypeInv, PwmInv, StatePlace, SpeakerTypeOK
  <1> QED  BY <1>1, Invariance, PTL

\* An initialised speaker has both its lines, whichever of the steps of
\* OpenVolumePins failed in whatever attempt before (Speaker.c:113, 312).
THEOREM PinsAreThere == Spec => []InitedHasPins
  <1>1. IInv => InitedHasPins
    BY DEF IInv, PinInv
  <1> QED  BY <1>1, Invariance, PTL

\* No thread drives a line of a chip that another thread has closed
\* (Speaker.c:184, 390).
THEOREM LinesAreLive == Spec => []DrivesLiveLines
  <1>1. IInv => DrivesLiveLines
    BY DEF IInv, PinInv, DrivesLiveLines, Lines
  <1> QED  BY <1>1, Invariance, PTL

\* A volume set is on the lines, however many threads set it (Speaker.c:174).
THEOREM VolumeIsSet == Spec => []VolumeAsSet
  <1>1. IInv => VolumeAsSet
    BY DEF IInv, LevelInv, TypeInv, VolumeAsSet, Unknown, SPEAKER_MAX_VOLUME_LEVEL
  <1> QED  BY <1>1, Invariance, PTL

\* Speaker_DeInit ends every tone, also one an earlier process left
\* (Speaker.c:238): no pitch comes between its write and its return.
THEOREM DeInitIsSilent == Spec => DeInitSilences
  <1>1. ASSUME IInv, [Next]_vars,
               State = "SPEAKER_INITED", State' = "SPEAKER_ENDED"
        PROVE  Tone' = 0
    <2>1. PICK c \in Caller : Speaker_DeInitEnd(c)
      BY <1>1 DEF Next, Call, Return, vars, Speaker_SetVolume, Speaker_Init,
         Speaker_DeInit, Speaker_SetVolumeEn1, Speaker_InitPins, Speaker_InitNoChip,
         Speaker_InitEnd, Speaker_DeInitPins, Speaker_PlayPitch, Goes, IInv, StateInv
    <2>2. duty_cycle' = 0
      BY <1>1, <2>1 DEF IInv, StateInv, Speaker_DeInitEnd, Goes, pitchVars, pwmVars
    <2> QED  BY <2>2 DEF Tone, Setting
  <1>2. IInv /\ [Next]_vars
          => [State = "SPEAKER_INITED" /\ State' = "SPEAKER_ENDED" => Tone' = 0]_vars
    BY <1>1
  <1> QED  BY <1>2, Invariance, PTL DEF Spec, DeInitSilences

\* A pitch sounds, except over a tone more than an octave below it
\* (Speaker.c:151-164).
THEOREM TonesFollow == Spec => ToneFollows
  <1>1. ASSUME IInv, [Next]_vars, CurrentFreq' # CurrentFreq,
               duty_cycle = 0 \/ CurrentFreq' <= 2 * Tone
        PROVE  Tone' = CurrentFreq'
    <2>1. PICK f \in Pitches : Speaker_PlayPitch(f)
      BY <1>1 DEF Next, Call, Return, vars, Speaker_SetVolume, Speaker_Init,
         Speaker_DeInit, Speaker_SetVolumeEn1, Speaker_InitPins, Speaker_InitNoChip,
         Speaker_InitEnd, Speaker_DeInitPins, Speaker_DeInitEnd, pitchVars
    <2>2. CurrentFreq' = f /\ WritePitch(f)
      BY <2>1 DEF Speaker_PlayPitch, WritePitch
    <2>3. duty_cycle = 0 \/ f = 0 \/ f <= 2 * Setting
      <3> SUFFICES ASSUME f # 0, f <= 2 * Tone PROVE f <= 2 * Setting
        BY <1>1, <2>2
      <3>1. f \in Nat \ {0}
        BY PwmAssumption
      <3>2. Tone # 0
        BY <3>1
      <3> QED  BY <3>2 DEF Tone
    <2> QED  BY <2>2, <2>3, <1>1, PitchSounds DEF IInv
  <1>2. IInv /\ [Next]_vars
          => [/\ CurrentFreq' # CurrentFreq
              /\ duty_cycle = 0 \/ CurrentFreq' <= 2 * Tone
              => Tone' = CurrentFreq']_vars
    BY <1>1
  <1> QED  BY <1>2, Invariance, PTL DEF Spec, ToneFollows
=============================================================================
