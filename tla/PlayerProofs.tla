---------------------------- MODULE PlayerProofs ----------------------------
(***************************************************************************)
(* The player's loop for any tables, any order of requests and any tone    *)
(* left on the channel: it reads its own tables, its notes sound, it is    *)
(* silent between tracks, and it implements the module Tune.               *)
(***************************************************************************)
EXTENDS Player, PwmProofs

\* Between tracks nothing is remembered and no table is looked up.
RestInv == /\ CurrTrackID = MaxTracks => Melody = NULL /\ CurrentFreq = 0
           /\ pc = "done" => CurrTrackID = MaxTracks
           /\ pc \in {"leave", "hush", "done"} => PlayerState = "Ending"

\* A remembered pitch sounds, or was refused as more than an octave too high.
Remembered ==
  CurrentFreq # 0 => /\ enable
                     /\ \/ Setting = CurrentFreq
                        \/ Setting # 0 /\ CurrentFreq > 2 * Setting

\* The first note ends what an earlier process left, and a note the one before.
NoteInv == /\ TickCount > 0 \/ NoteIndex > 0 => ~LeftOver
           /\ NoteIndex > 0 /\ TickCount = 0 => CurrentFreq = 0
           /\ NotesSound

ChannelInv == PwmInv /\ enable \in BOOLEAN /\ Remembered

IInv == PlayerTypeOK /\ ReadsOwnTables /\ RestInv /\ ChannelInv /\ NoteInv

-----------------------------------------------------------------------------
\* A pitch played, whether it was written or remembered.
LEMMA PitchPlayed ==
  ASSUME ChannelInv, NEW f \in Pitches, f # 0, PlayPitch(f)
  PROVE  /\ ChannelInv'
         /\ CurrentFreq' = f
         /\ enable'
         /\ \/ Setting' = f
            \/ Setting # 0 /\ f > 2 * Setting /\ Setting' = Setting
         /\ CurrentFreq = 0 /\ duty_cycle = 0 => Setting' = f
  <1>1. CASE f = CurrentFreq
    <2>1. UNCHANGED pitchVars
      BY <1>1 DEF PlayPitch
    <2>2. ChannelInv' /\ Setting' = Setting
      BY <2>1 DEF pitchVars, pwmVars, ChannelInv, PwmInv, Remembered, Setting
    <2> QED  BY <1>1, <2>1, <2>2 DEF ChannelInv, Remembered, pitchVars, pwmVars
  <1>2. CASE f # CurrentFreq
    <2>1. WritePitch(f)
      BY <1>2 DEF PlayPitch
    <2>2. PwmInv' /\ CurrentFreq' = f /\ enable' = TRUE
      BY <2>1, WritePitchInv, PitchWritten DEF ChannelInv, WritePitch
    <2>3. /\ \/ Setting' = f
             \/ Setting # 0 /\ f > 2 * Setting /\ Setting' = Setting
          /\ duty_cycle = 0 => Setting' = f
      BY <2>1, PitchWritten DEF ChannelInv
    <2> QED  BY <2>2, <2>3 DEF ChannelInv, Remembered
  <1> QED  BY <1>1, <1>2

\* Silence played: only a tone that an earlier process left stays.
LEMMA SilencePlayed ==
  ASSUME ChannelInv, PlayPitch(0)
  PROVE  /\ ChannelInv'
         /\ CurrentFreq' = 0
         /\ ~LeftOver => duty_cycle' = 0
         /\ LeftOver => UNCHANGED pitchVars
  <1>1. 0 \in Pitches
    BY PwmAssumption
  <1>2. CASE CurrentFreq = 0
    <2>1. UNCHANGED pitchVars
      BY <1>2 DEF PlayPitch
    <2>2. ChannelInv'
      BY <2>1 DEF pitchVars, pwmVars, ChannelInv, PwmInv, Remembered, Setting
    <2> QED  BY <1>2, <2>1, <2>2 DEF LeftOver, pitchVars, pwmVars, ChannelInv, PwmInv
  <1>3. CASE CurrentFreq # 0
    <2>1. WritePitch(0)
      BY <1>3 DEF PlayPitch
    <2>2. PwmInv' /\ CurrentFreq' = 0 /\ duty_cycle' = 0 /\ enable' = FALSE
      BY <1>1, <2>1, WritePitchInv, PitchSounds DEF ChannelInv, WritePitch
    <2> QED  BY <1>3, <2>2 DEF ChannelInv, Remembered, LeftOver
  <1> QED  BY <1>2, <1>3

\* The type of the channel follows from its invariant.
LEMMA ChannelTyped ==
  /\ ChannelInv => PwmTypeOK
  /\ ChannelInv' => PwmTypeOK'
  <1>1. ASSUME NEW p \in Nat, NEW d \in Nat, 2 * d <= p PROVE d \in 0 .. p
    BY <1>1
  <1> QED  BY <1>1, PwmAssumption DEF ChannelInv, PwmInv, PwmTypeOK

\* No duty cycle, no tone.
LEMMA NoDutyNoTone == duty_cycle = 0 => Setting = 0 /\ Tone = 0
  BY DEF Setting, Tone

-----------------------------------------------------------------------------
\* The tables after the look-up are those of the track, if there is one.
LEMMA TablesLoaded ==
  ASSUME IInv
  PROVE  /\ CurrTrackID = MaxTracks => ~Playable /\ Loaded = NULL /\ Length = Size
         /\ CurrTrackID # MaxTracks =>
              /\ Playable
              /\ CurrTrackID \in Tracks
              /\ Loaded = CurrTrackID
              /\ Length = Len(Melodies[CurrTrackID])
              /\ NoteIndex \in 0 .. Length - 1
              /\ Pitch \in Pitches
              /\ NoteIndex = 0 => Pitch # 0
              /\ Duration \in Nat \ {0}
  <1>1. CASE CurrTrackID = MaxTracks
    BY <1>1 DEF IInv, RestInv, Playable, Loaded, Length, Loads
  <1>2. CASE CurrTrackID # MaxTracks
    <2>1. /\ CurrTrackID \in Tracks
          /\ Melodies[CurrTrackID] \in Seq(Pitches) /\ Len(Melodies[CurrTrackID]) > 0
          /\ Melodies[CurrTrackID][1] # 0
          /\ Rhythms[CurrTrackID] \in Seq(Nat \ {0})
          /\ Len(Rhythms[CurrTrackID]) = Len(Melodies[CurrTrackID])
      BY <1>2, TableAssumption DEF IInv, PlayerTypeOK
    <2>2. Loaded = CurrTrackID /\ Length = Len(Melodies[CurrTrackID])
      <3>1. CASE Melody = NULL
        BY <1>2, <3>1 DEF IInv, ReadsOwnTables, Loaded, Length, Loads
      <3>2. CASE Melody # NULL
        BY <1>2, <3>2 DEF IInv, ReadsOwnTables, Loaded, Length, Loads
      <3> QED  BY <3>1, <3>2
    <2>3. NoteIndex \in 0 .. Length - 1
      <3>1. CASE Melody = NULL
        BY <2>1, <2>2, <3>1 DEF IInv, ReadsOwnTables
      <3>2. CASE Melody # NULL
        BY <1>2, <2>1, <2>2, <3>2 DEF IInv, ReadsOwnTables, PlayerTypeOK
      <3> QED  BY <3>1, <3>2
    <2>4. Playable
      BY <1>2, <2>1, <2>2, <2>3, TableAssumption DEF Playable
    <2>5. Pitch \in Pitches /\ (NoteIndex = 0 => Pitch # 0) /\ Duration \in Nat \ {0}
      BY <2>1, <2>2, <2>3 DEF Pitch, Duration
    <2> QED  BY <1>2, <2>1, <2>2, <2>3, <2>4, <2>5
  <1> QED  BY <1>1, <1>2

LEMMA InitInv == Init => IInv
  <1> SUFFICES ASSUME Init PROVE IInv
    OBVIOUS
  <1>1. ChannelInv
    <2>1. PwmInv /\ enable \in BOOLEAN /\ CurrentFreq = 0
      BY PwmInitInv DEF Init, PwmInit
    <2> QED  BY <2>1 DEF ChannelInv, Remembered
  <1>2. PlayerTypeOK
    BY <1>1, ChannelTyped, TableAssumption DEF Init, PlayerTypeOK
  <1>3. ReadsOwnTables /\ RestInv /\ NoteInv
    BY DEF Init, PwmInit, ReadsOwnTables, RestInv, NoteInv, NotesSound
  <1> QED  BY <1>1, <1>2, <1>3 DEF IInv

\* Steps that do not touch the channel keep what is said of it.
LEMMA ChannelKept ==
  ASSUME ChannelInv, UNCHANGED pitchVars
  PROVE  /\ ChannelInv' /\ PwmTypeOK'
         /\ Tone' = Tone /\ Setting' = Setting /\ LeftOver' = LeftOver
         /\ CurrentFreq' = CurrentFreq
  <1>1. ChannelInv'
    BY DEF pitchVars, pwmVars, ChannelInv, PwmInv, Remembered, Setting
  <1>2. PwmTypeOK'
    BY ChannelTyped DEF PwmTypeOK, pitchVars, pwmVars
  <1> QED  BY <1>1, <1>2 DEF Tone, Setting, LeftOver, pitchVars, pwmVars

LEMMA PlayTrackStep == ASSUME IInv, NEW t \in Tracks, PlayTrackID(t) PROVE IInv'
  <1> USE DEF PlayTrackID, trackVars, IInv
  <1>1. ChannelInv' /\ PwmTypeOK' /\ PlayerTypeOK'
    BY ChannelKept DEF PlayerTypeOK
  <1>2. ReadsOwnTables' /\ RestInv' /\ NoteInv'
    BY ChannelKept DEF ReadsOwnTables, RestInv, NoteInv, NotesSound
  <1> QED  BY <1>1, <1>2

LEMMA TaskEndsStep == ASSUME IInv, TaskEnds PROVE IInv'
  <1> USE DEF TaskEnds, trackVars, IInv
  <1>1. ChannelInv' /\ PwmTypeOK' /\ PlayerTypeOK'
    BY ChannelKept DEF PlayerTypeOK
  <1>2. ReadsOwnTables' /\ RestInv' /\ NoteInv'
    BY ChannelKept DEF ReadsOwnTables, RestInv, NoteInv, NotesSound
  <1> QED  BY <1>1, <1>2

LEMMA CheckStep == ASSUME IInv, Check PROVE IInv'
  <1> USE DEF Check, Goes, MayPlay, trackVars, IInv
  <1>1. ChannelInv' /\ PwmTypeOK' /\ PlayerTypeOK'
    BY ChannelKept DEF PlayerTypeOK
  <1>2. ReadsOwnTables' /\ NoteInv'
    BY ChannelKept DEF ReadsOwnTables, NoteInv, NotesSound
  <1>3. RestInv'
    BY ChannelKept DEF RestInv, PlayerTypeOK
  <1> QED  BY <1>1, <1>2, <1>3

\* A request starts its track over with no tables, or there is none.
LEMMA FetchStep == ASSUME IInv, Fetch PROVE IInv'
  <1>1. CASE NextTrackID = MaxTracks
    <2> USE <1>1 DEF Fetch, Goes, trackVars, IInv
    <2>1. ChannelInv' /\ PwmTypeOK' /\ PlayerTypeOK'
      BY ChannelKept DEF PlayerTypeOK
    <2>2. ReadsOwnTables' /\ RestInv' /\ NoteInv'
      BY ChannelKept DEF ReadsOwnTables, RestInv, NoteInv, NotesSound
    <2> QED  BY <2>1, <2>2
  <1>2. CASE NextTrackID # MaxTracks
    <2>1. /\ CurrTrackID' = NextTrackID /\ NextTrackID \in Tracks
          /\ NoteIndex' = 0 /\ TickCount' = 0 /\ Melody' = NULL
          /\ NextTrackID' = MaxTracks /\ pc' = "play"
          /\ UNCHANGED <<PlayerState, Size, pitchVars>>
      BY <1>2 DEF Fetch, Goes, FirstNote, TablesDropped, IInv, PlayerTypeOK
    <2>2. ChannelInv' /\ PwmTypeOK'
      BY <2>1, ChannelKept DEF IInv
    <2>3. PlayerTypeOK'
      BY <2>1, <2>2 DEF IInv, PlayerTypeOK
    <2>4. ReadsOwnTables' /\ RestInv' /\ NoteInv'
      BY <2>1, TableAssumption DEF ReadsOwnTables, RestInv, NoteInv, NotesSound
    <2> QED  BY <2>2, <2>3, <2>4 DEF IInv
  <1> QED  BY <1>1, <1>2

\* Without a track there is nothing to look up and nothing is written.
LEMMA IdleStep ==
  ASSUME IInv, Idle
  PROVE  /\ IInv'
         /\ UNCHANGED <<PlayerState, NextTrackID, trackVars, pitchVars>>
  <1>1. CurrTrackID = MaxTracks /\ Loaded = NULL /\ Length = Size
    BY TablesLoaded DEF Idle
  <1>2. Melody = NULL /\ CurrentFreq = 0
    BY <1>1 DEF IInv, RestInv
  <1>3. /\ UNCHANGED <<PlayerState, NextTrackID, trackVars, pitchVars>>
        /\ pc' = "check"
    BY <1>1, <1>2 DEF Idle, Goes, PlayPitch, trackVars
  <1>4. ChannelInv' /\ PwmTypeOK' /\ PlayerTypeOK'
    BY <1>3, ChannelKept DEF PlayerTypeOK, IInv, trackVars
  <1>5. ReadsOwnTables' /\ RestInv' /\ NoteInv'
    BY <1>3, ChannelKept DEF ReadsOwnTables, RestInv, NoteInv, NotesSound, IInv, trackVars
  <1> QED  BY <1>3, <1>4, <1>5 DEF IInv

\* A note begins: the first of a track over anything, the others over silence.
LEMMA BeginStep ==
  ASSUME IInv, Begin
  PROVE  /\ IInv'
         /\ ~LeftOver'
         /\ Pitch = 0 => Setting' = 0 /\ Tone' = 0
         /\ Pitch # 0 => /\ Tone' = Setting'
                         /\ \/ Setting' = Pitch
                            \/ Setting # 0 /\ Pitch > 2 * Setting /\ Setting' = Setting
  <1>1. /\ CurrTrackID # MaxTracks /\ CurrTrackID \in Tracks
        /\ Loaded = CurrTrackID
        /\ Length = Len(Melodies[CurrTrackID]) /\ Length \in Nat
        /\ NoteIndex \in 0 .. Length - 1
        /\ Pitch \in Pitches /\ (NoteIndex = 0 => Pitch # 0)
    BY TablesLoaded, TableAssumption DEF Begin, Playable
  <1>2. /\ TickCount = 0 /\ TickCount' = 1 /\ PlayPitch(Pitch)
        /\ Melody' = CurrTrackID /\ Size' = Length /\ pc' = "check"
        /\ UNCHANGED <<PlayerState, NextTrackID, CurrTrackID, NoteIndex>>
    BY <1>1 DEF Begin, Goes
  <1>3. Pitch = Melodies[CurrTrackID][NoteIndex + 1]
    BY <1>1 DEF Pitch
  <1>4. NoteIndex > 0 => CurrentFreq = 0 /\ duty_cycle = 0
    BY <1>2 DEF IInv, NoteInv, LeftOver, ChannelInv, PwmInv
  <1>5. /\ ChannelInv' /\ ~LeftOver'
        /\ NoteIndex > 0 => Tone' = Pitch
        /\ Pitch = 0 => Setting' = 0 /\ Tone' = 0
        /\ Pitch # 0 => /\ Tone' = Setting'
                        /\ \/ Setting' = Pitch
                           \/ Setting # 0 /\ Pitch > 2 * Setting /\ Setting' = Setting
    <2>1. CASE Pitch = 0
      <3>1. NoteIndex > 0 /\ CurrentFreq = 0 /\ duty_cycle = 0
        BY <1>1, <1>4, <2>1
      <3>2. UNCHANGED pitchVars
        BY <1>2, <2>1, <3>1 DEF PlayPitch
      <3>3. ChannelInv' /\ Tone' = 0 /\ Setting' = 0 /\ duty_cycle' = 0
        BY <3>1, <3>2, ChannelKept, NoDutyNoTone DEF IInv, pitchVars, pwmVars
      <3> QED  BY <2>1, <3>3 DEF LeftOver
    <2>2. CASE Pitch # 0
      <3>1. /\ ChannelInv' /\ CurrentFreq' = Pitch /\ enable'
            /\ \/ Setting' = Pitch
               \/ Setting # 0 /\ Pitch > 2 * Setting /\ Setting' = Setting
            /\ CurrentFreq = 0 /\ duty_cycle = 0 => Setting' = Pitch
        BY <1>1, <1>2, <2>2, PitchPlayed DEF IInv
      <3>2. Tone' = Setting'
        BY <3>1 DEF Tone
      <3> QED  BY <1>4, <2>2, <3>1, <3>2 DEF LeftOver
    <2> QED  BY <2>1, <2>2
  <1>6. PwmTypeOK'
    BY <1>5, ChannelTyped
  <1>7. PlayerTypeOK'
    BY <1>1, <1>2, <1>6 DEF IInv, PlayerTypeOK
  <1>8. ReadsOwnTables' /\ RestInv'
    BY <1>1, <1>2, TableAssumption DEF ReadsOwnTables, RestInv, IInv
  <1>9. NoteInv'
    BY <1>2, <1>3, <1>5 DEF NoteInv, NotesSound
  <1> QED  BY <1>5, <1>7, <1>8, <1>9 DEF IInv

LEMMA HoldStep == ASSUME IInv, Hold PROVE IInv'
  <1>1. CurrTrackID # MaxTracks /\ Duration \in Nat
    BY TablesLoaded DEF Hold
  <1>2. TickCount \in Nat /\ TickCount > 0
    BY DEF Hold, IInv, PlayerTypeOK
  <1>3. Melody # NULL
    BY <1>2 DEF IInv, ReadsOwnTables
  <1>4. ChannelInv' /\ PwmTypeOK' /\ PlayerTypeOK'
    BY <1>2, ChannelKept DEF Hold, Goes, PlayerTypeOK, IInv
  <1>5. ReadsOwnTables' /\ RestInv' /\ NoteInv'
    BY <1>1, <1>2, <1>3, ChannelKept
    DEF Hold, Goes, ReadsOwnTables, RestInv, NoteInv, NotesSound, IInv
  <1> QED  BY <1>4, <1>5 DEF IInv

\* A note ends in silence, since nothing of an earlier process is left.
LEMMA EndStep ==
  ASSUME IInv, End
  PROVE  /\ IInv'
         /\ Setting' = 0 /\ Tone' = 0
         /\ TickCount > 0 /\ ~LeftOver /\ ~LeftOver'
         /\ CurrTrackID # MaxTracks /\ NoteIndex \in Nat
         /\ Size = Len(Melodies[CurrTrackID]) /\ Size \in Nat
  <1>1. /\ CurrTrackID # MaxTracks /\ CurrTrackID \in Tracks
        /\ Loaded = CurrTrackID
        /\ NoteIndex \in Nat
        /\ Duration \in Nat \ {0}
    BY TablesLoaded DEF End, Playable
  <1>2. TickCount \in Nat /\ TickCount > 0
    BY <1>1 DEF End, IInv, PlayerTypeOK
  <1>3. /\ Melody # NULL /\ Melody = CurrTrackID
        /\ Size = Len(Melodies[CurrTrackID]) /\ Size \in Nat /\ NoteIndex < Size
    BY <1>1, <1>2 DEF IInv, ReadsOwnTables, PlayerTypeOK
  <1>4. ~LeftOver
    BY <1>2 DEF IInv, NoteInv
  <1>5. ChannelInv' /\ CurrentFreq' = 0 /\ duty_cycle' = 0
    BY <1>4, SilencePlayed DEF End, Separate, IInv
  <1>6. PwmTypeOK' /\ ~LeftOver' /\ Setting' = 0 /\ Tone' = 0
    BY <1>5, PwmAssumption DEF ChannelInv, PwmInv, PwmTypeOK, LeftOver, Setting, Tone
  <1>7. /\ TickCount' = 0 /\ pc' = "check"
        /\ UNCHANGED <<PlayerState, NextTrackID>>
        /\ \/ CurrTrackID' = MaxTracks /\ NoteIndex' = 0 /\ Melody' = NULL /\ Size' = 0
           \/ /\ NoteIndex' = NoteIndex + 1 /\ NoteIndex + 1 < Size
              /\ UNCHANGED <<CurrTrackID, Melody, Size>>
    BY <1>3 DEF End, Goes, LastNote, TrackOver, FirstNote, IInv, PlayerTypeOK
  <1>8. PlayerTypeOK'
    BY <1>1, <1>3, <1>6, <1>7 DEF IInv, PlayerTypeOK
  <1>9. ReadsOwnTables'
    BY <1>1, <1>3, <1>7 DEF IInv, ReadsOwnTables
  <1>10. RestInv' /\ NoteInv'
    BY <1>1, <1>5, <1>6, <1>7 DEF RestInv, NoteInv, NotesSound, IInv
  <1> QED  BY <1>1, <1>2, <1>3, <1>4, <1>5, <1>6, <1>8, <1>9, <1>10 DEF IInv

LEMMA LeaveStep == ASSUME IInv, Leave PROVE IInv'
  <1> USE DEF Leave, Goes, trackVars, IInv
  <1>1. ChannelInv' /\ PwmTypeOK' /\ PlayerTypeOK'
    BY ChannelKept DEF PlayerTypeOK
  <1>2. ReadsOwnTables' /\ RestInv' /\ NoteInv'
    BY ChannelKept DEF ReadsOwnTables, RestInv, NoteInv, NotesSound
  <1> QED  BY <1>1, <1>2

LEMMA HushStep ==
  ASSUME IInv, Hush
  PROVE  /\ IInv'
         /\ LeftOver' = LeftOver
         /\ LeftOver => UNCHANGED pitchVars
         /\ ~LeftOver => Setting' = 0 /\ Tone' = 0
  <1>1. /\ pc = "hush" /\ pc' = "done" /\ PlayPitch(0)
        /\ CurrTrackID' = MaxTracks /\ NoteIndex' = 0 /\ TickCount' = 0
        /\ Melody' = NULL /\ Size' = 0
        /\ UNCHANGED <<PlayerState, NextTrackID>>
    BY DEF Hush, Goes, LastPitch
  <1>2. /\ ChannelInv' /\ CurrentFreq' = 0
        /\ ~LeftOver => duty_cycle' = 0
        /\ LeftOver => UNCHANGED pitchVars
    BY <1>1, SilencePlayed DEF IInv
  <1>3. LeftOver' = LeftOver
    BY <1>2 DEF LeftOver, pitchVars, pwmVars
  <1>4. ~LeftOver => Setting' = 0 /\ Tone' = 0
    BY <1>2 DEF Setting, Tone
  <1>5. PwmTypeOK'
    BY <1>2, ChannelTyped
  <1>6. PlayerTypeOK'
    BY <1>1, <1>5 DEF IInv, PlayerTypeOK
  <1>7. ReadsOwnTables' /\ RestInv' /\ NoteInv'
    BY <1>1, <1>2 DEF ReadsOwnTables, RestInv, NoteInv, NotesSound, IInv
  <1> QED  BY <1>2, <1>3, <1>4, <1>6, <1>7 DEF IInv

LEMMA Stutter == ASSUME IInv, UNCHANGED vars PROVE IInv'
  <1> USE DEF vars, trackVars, IInv
  <1>1. ChannelInv' /\ PwmTypeOK' /\ PlayerTypeOK'
    BY ChannelKept DEF PlayerTypeOK
  <1>2. ReadsOwnTables' /\ RestInv' /\ NoteInv'
    BY ChannelKept DEF ReadsOwnTables, RestInv, NoteInv, NotesSound
  <1> QED  BY <1>1, <1>2

LEMMA Invariance == Spec => []IInv
  <1>1. ASSUME IInv, [Next]_vars PROVE IInv'
    <2>1. CASE \E t \in Tracks : PlayTrackID(t)
      BY <1>1, <2>1, PlayTrackStep
    <2>2. CASE TaskEnds
      BY <1>1, <2>2, TaskEndsStep
    <2>3. CASE Check
      BY <1>1, <2>3, CheckStep
    <2>4. CASE Fetch
      BY <1>1, <2>4, FetchStep
    <2>5. CASE Idle
      BY <1>1, <2>5, IdleStep
    <2>6. CASE Begin
      BY <1>1, <2>6, BeginStep
    <2>7. CASE Hold
      BY <1>1, <2>7, HoldStep
    <2>8. CASE End
      BY <1>1, <2>8, EndStep
    <2>9. CASE Leave
      BY <1>1, <2>9, LeaveStep
    <2>10. CASE Hush
      BY <1>1, <2>10, HushStep
    <2>11. CASE UNCHANGED vars
      BY <1>1, <2>11, Stutter
    <2> QED  BY <1>1, <2>1, <2>2, <2>3, <2>4, <2>5, <2>6, <2>7, <2>8, <2>9, <2>10, <2>11
             DEF Next, PlayerStep
  <1> QED  BY <1>1, InitInv, PTL DEF Spec

-----------------------------------------------------------------------------
\* Every variable of the player keeps its type, and the index stays within the
\* length last looked up (Audio.c:319-392).
THEOREM PlayerTypeCorrect == Spec => []PlayerTypeOK
  <1>1. IInv => PlayerTypeOK
    BY DEF IInv
  <1> QED  BY <1>1, Invariance, PTL

\* For any tables and any order of requests: the notes read are those of the
\* track, and never one past the end (Audio.c:333-362).
THEOREM TablesAreOwn == Spec => []ReadsOwnTables
  <1>1. IInv => ReadsOwnTables
    BY DEF IInv
  <1> QED  BY <1>1, Invariance, PTL

\* For any tables: every note but the first of a track sounds at its own pitch
\* (Audio.c:363-377 and Speaker.c:151-164).
THEOREM NotesAreHeard == Spec => []NotesSound
  <1>1. IInv => NotesSound
    BY DEF IInv, NoteInv
  <1> QED  BY <1>1, Invariance, PTL

\* For any tables: without a track, and when the player is gone, no tone of this
\* process sounds (Audio.c:341-345, 379-389).
THEOREM RestsHeard == Spec => []RestsAreSilent
  <1>1. IInv => RestsAreSilent
    <2> SUFFICES ASSUME IInv, CurrTrackID = MaxTracks
                 PROVE  Tone = 0 \/ LeftOver
      BY DEF RestsAreSilent, IInv, RestInv
    <2>1. CurrentFreq = 0 /\ duty_cycle \in Nat
      BY DEF IInv, RestInv, ChannelInv, PwmInv
    <2>2. CASE duty_cycle = 0
      BY <2>2, NoDutyNoTone
    <2>3. CASE duty_cycle # 0
      BY <2>1, <2>3 DEF LeftOver
    <2> QED  BY <2>2, <2>3
  <1> QED  BY <1>1, Invariance, PTL

-----------------------------------------------------------------------------
\* The state that Tune speaks of, as the loop keeps it.
tuneState == <<NextTrackID, CurrTrackID, NoteIndex + 1, TickCount > 0, Setting, Tone # 0,
               LeftOver, PlayerState # "Running", pc = "done">>

LEMMA InitMaps == Init => Tunes!TuneInit
  <1> SUFFICES ASSUME Init PROVE Tunes!TuneInit
    OBVIOUS
  <1>1. PwmInv /\ CurrentFreq = 0 /\ enable \in BOOLEAN
    BY PwmInitInv DEF Init, PwmInit
  <1>2. Setting \in Nat /\ (Setting # 0 <=> duty_cycle > 0)
    BY <1>1, SettingInRange
  <1>3. Tone # 0 => Setting # 0
    BY DEF Tone
  <1>4. LeftOver <=> Setting # 0
    BY <1>1, <1>2 DEF LeftOver
  <1>5. /\ NextTrackID = MaxTracks /\ CurrTrackID = MaxTracks /\ NoteIndex + 1 = 1
        /\ (TickCount > 0) = FALSE /\ (PlayerState # "Running") = FALSE
        /\ (pc = "done") = FALSE
    BY DEF Init
  <1>6. (Tone # 0) \in BOOLEAN /\ LeftOver = (Setting # 0)
    BY <1>4 DEF LeftOver
  <1> QED  BY <1>2, <1>3, <1>5, <1>6 DEF Tunes!TuneInit

\* A step of the loop maps to a step of the tune, or to none.
LEMMA StepMaps == ASSUME IInv, [Next]_vars PROVE [Tunes!TuneNext]_tuneState
  <1> USE DEF tuneState
  <1>1. UNCHANGED pitchVars => UNCHANGED <<Setting, Tone, LeftOver>>
    BY ChannelKept DEF IInv
  <1>2. ASSUME NEW t \in Tracks, PlayTrackID(t) PROVE Tunes!Ask
    BY <1>1, <1>2 DEF PlayTrackID, trackVars, Tunes!Ask
  <1>3. CASE TaskEnds
    <2>1. Tunes!Stop
      BY <1>1, <1>3 DEF TaskEnds, trackVars, Tunes!Stop
    <2> QED  BY <2>1 DEF Tunes!TuneNext
  <1>4. CASE Check
    BY <1>1, <1>4 DEF Check, Goes, trackVars
  <1>5. CASE Fetch
    <2>1. CASE NextTrackID = MaxTracks
      BY <1>1, <1>5, <2>1 DEF Fetch, Goes, trackVars
    <2>2. CASE NextTrackID # MaxTracks
      <3>1. Tunes!Take
        BY <1>1, <1>5, <2>2 DEF Fetch, Goes, FirstNote, Tunes!Take
      <3> QED  BY <3>1 DEF Tunes!TuneNext
    <2> QED  BY <2>1, <2>2
  <1>6. CASE Idle
    <2>1. UNCHANGED <<PlayerState, NextTrackID, trackVars, pitchVars>>
      BY <1>6, IdleStep
    <2> QED  BY <1>1, <1>6, <2>1 DEF Idle, Goes, trackVars
  <1>7. CASE Begin
    <2>1. /\ ~LeftOver'
          /\ Pitch = 0 => Setting' = 0 /\ Tone' = 0
          /\ Pitch # 0 => /\ Tone' = Setting'
                          /\ \/ Setting' = Pitch
                             \/ Setting # 0 /\ Pitch > 2 * Setting /\ Setting' = Setting
      BY <1>7, BeginStep
    <2>2. CurrTrackID # MaxTracks /\ Pitch = Melodies[CurrTrackID][NoteIndex + 1]
      BY <1>7, TablesLoaded DEF Begin, Pitch
    <2>3. /\ pc # "done" /\ pc' # "done" /\ TickCount = 0 /\ TickCount' = 1
          /\ UNCHANGED <<PlayerState, NextTrackID, CurrTrackID, NoteIndex>>
      BY <1>7 DEF Begin, Goes
    <2>4. Tunes!Begin
      BY <2>1, <2>2, <2>3 DEF Tunes!Begin, Tunes!Hush
    <2> QED  BY <2>4 DEF Tunes!TuneNext
  <1>8. CASE Hold
    <2>1. (TickCount > 0) = (TickCount' > 0)
      BY <1>8 DEF Hold, IInv, PlayerTypeOK
    <2> QED  BY <1>1, <1>8, <2>1 DEF Hold, Goes
  <1>9. CASE End
    <2>1. /\ Setting' = 0 /\ Tone' = 0
          /\ TickCount > 0 /\ ~LeftOver /\ ~LeftOver'
          /\ NoteIndex \in Nat
          /\ Size = Len(Melodies[CurrTrackID]) /\ Size \in Nat
      BY <1>9, EndStep
    <2>2. /\ pc # "done" /\ pc' # "done" /\ TickCount' = 0
          /\ UNCHANGED <<PlayerState, NextTrackID>>
          /\ IF NoteIndex + 1 < Size
             THEN NoteIndex' = NoteIndex + 1 /\ UNCHANGED CurrTrackID
             ELSE NoteIndex' = 0 /\ CurrTrackID' = MaxTracks
      BY <1>9, <2>1 DEF End, Goes, LastNote, FirstNote, TrackOver
    <2>3. UNCHANGED <<NextTrackID, LeftOver, PlayerState # "Running", pc = "done">>
      BY <2>1, <2>2 DEF LeftOver
    <2>4. (TickCount > 0) /\ (TickCount' > 0) = FALSE /\ (Tone' # 0) = FALSE
      BY <2>1, <2>2
    <2>5. IF NoteIndex + 1 < Len(Melodies[CurrTrackID])
          THEN NoteIndex' + 1 = NoteIndex + 1 + 1 /\ UNCHANGED CurrTrackID
          ELSE NoteIndex' + 1 = 1 /\ CurrTrackID' = MaxTracks
      BY <2>1, <2>2
    <2>6. Tunes!End
      BY <2>1, <2>2, <2>3, <2>4, <2>5 DEF Tunes!End, Tunes!Hush
    <2> QED  BY <2>6 DEF Tunes!TuneNext
  <1>10. CASE Leave
    <2>1. PlayerState # "Running"
      BY <1>10 DEF Leave, Goes, IInv, RestInv
    <2>2. Tunes!Withdraw
      BY <1>1, <1>10, <2>1 DEF Leave, Goes, trackVars, Tunes!Withdraw
    <2> QED  BY <2>2 DEF Tunes!TuneNext
  <1>11. CASE Hush
    <2>1. PlayerState # "Running"
      BY <1>11 DEF Hush, Goes, IInv, RestInv
    <2>2. /\ LeftOver' = LeftOver
          /\ LeftOver => UNCHANGED pitchVars
          /\ ~LeftOver => Setting' = 0 /\ Tone' = 0
      BY <1>11, HushStep
    <2>3. Tunes!Finish
      BY <1>1, <1>11, <2>1, <2>2 DEF Hush, Goes, Tunes!Finish, Tunes!Hush
    <2> QED  BY <2>3 DEF Tunes!TuneNext
  <1>12. CASE UNCHANGED vars
    BY <1>1, <1>12 DEF vars, trackVars
  <1> QED  BY <1>2, <1>3, <1>4, <1>5, <1>6, <1>7, <1>8, <1>9, <1>10, <1>11, <1>12
           DEF Next, PlayerStep, Tunes!TuneNext

\* For any tables, any requests and any tone left on the channel: the loop with
\* its ticks, pointers and remembered pitches plays the tune (Audio.c:319-392).
THEOREM LoopPlaysTune == Spec => PlaysTune
  <1>1. IInv /\ [Next]_vars => [Tunes!TuneNext]_Tunes!tuneVars
    BY StepMaps DEF tuneState, Tunes!tuneVars
  <1> QED  BY <1>1, InitMaps, Invariance, PTL DEF Spec, PlaysTune, Tunes!TuneSpec
=============================================================================
