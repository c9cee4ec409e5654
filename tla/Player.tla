------------------------------- MODULE Player -------------------------------
(***************************************************************************)
(* PlayerTaskLoop of Audio.c: the thread that plays a track note by note,  *)
(* with its counters and table pointers, on the PWM channel of Speaker.c.  *)
(*                                                                         *)
(* The audio task is the environment: it stores a track in the mailbox     *)
(* NextTrackID whenever it likes, and at last sets PlayerState to Ending.  *)
(* The speaker is initialised while a player runs.  A turn of the loop is  *)
(* the test of PlayerState, the exchange of the mailbox, and the rest,     *)
(* which only the player's own state and the channel take part in.         *)
(***************************************************************************)
EXTENDS Pwm, Sequences

CONSTANTS Tracks,               \* the tracks, 0 .. MaxTracks - 1 in the source
          MaxTracks,            \* "no track"
          Melodies, Rhythms,    \* GetTrack: the tables of each track
          NULL

ASSUME TableAssumption ==
  /\ MaxTracks \notin Tracks /\ NULL \notin Tracks
  /\ \A t \in Tracks : /\ Melodies[t] \in Seq(Pitches) /\ Len(Melodies[t]) > 0
                       /\ Melodies[t][1] # 0
                       /\ Rhythms[t] \in Seq(Nat \ {0})
                       /\ Len(Rhythms[t]) = Len(Melodies[t])

VARIABLES PlayerState, NextTrackID,
          pc,
          CurrTrackID, NoteIndex, TickCount,
          Melody,     \* whose tables Melody and Rhythm point to, or NULL
          Size        \* Len in the source

trackVars == <<CurrTrackID, NoteIndex, TickCount, Melody, Size>>
vars == <<PlayerState, NextTrackID, pc, trackVars, pitchVars>>

Init == /\ PlayerState = "Running"
        /\ NextTrackID = MaxTracks
        /\ pc = "check"
        /\ CurrTrackID = MaxTracks
        /\ NoteIndex = 0
        /\ TickCount = 0
        /\ Melody = NULL
        /\ Size = 0
        /\ PwmInit

Goes(from, to) == pc = from /\ pc' = to

-----------------------------------------------------------------------------
\* PlayTrackID in the audio task.
PlayTrackID(t) == /\ PlayerState = "Running"
                  /\ NextTrackID' = t
                  /\ UNCHANGED <<PlayerState, pc, trackVars, pitchVars>>

\* The end of TaskLoop: no track comes after it.
TaskEnds == /\ PlayerState = "Running"
            /\ PlayerState' = "Ending"
            /\ UNCHANGED <<NextTrackID, pc, trackVars, pitchVars>>

\* Mutant: only a player that has ended stops.
MayPlayOrNot == PlayerState # "Ended"

MayPlay == PlayerState = "Running"

\* while (PlayerState == Running)
Check == /\ Goes("check", IF MayPlay THEN "fetch" ELSE "leave")
         /\ UNCHANGED <<PlayerState, NextTrackID, trackVars, pitchVars>>

\* Mutant: the tables of the track before stay.
TablesDroppedNot == Melody

TablesDropped == NULL

FirstNote == 0

\* atomic_exchange; a new track starts over, its tables not looked up yet.
Fetch == /\ Goes("fetch", "play")
         /\ NextTrackID' = MaxTracks
         /\ IF NextTrackID # MaxTracks
            THEN /\ CurrTrackID' = NextTrackID
                 /\ NoteIndex' = FirstNote
                 /\ TickCount' = 0
                 /\ Melody' = TablesDropped
                 /\ UNCHANGED Size
            ELSE UNCHANGED trackVars
         /\ UNCHANGED <<PlayerState, pitchVars>>

\* GetTrack, at the first turn of a track.
Loads  == CurrTrackID # MaxTracks /\ NoteIndex = 0 /\ Melody = NULL
Loaded == IF Loads THEN CurrTrackID ELSE Melody
Length == IF Loads THEN Len(Melodies[CurrTrackID]) ELSE Size

Playable == CurrTrackID # MaxTracks /\ Loaded # NULL /\ NoteIndex < Length

\* Nothing to play.
Idle == /\ Goes("play", "check")
        /\ ~Playable
        /\ CurrTrackID' = MaxTracks
        /\ Melody' = Loaded
        /\ Size' = Length
        /\ PlayPitch(0)
        /\ UNCHANGED <<PlayerState, NextTrackID, NoteIndex, TickCount>>

Pitch    == Melodies[Loaded][NoteIndex + 1]
Duration == Rhythms[Loaded][NoteIndex + 1]

\* A note begins: it sounds if it was not remembered as sounding.
Begin == /\ Goes("play", "check")
         /\ Playable
         /\ TickCount = 0
         /\ PlayPitch(Pitch)
         /\ TickCount' = 1
         /\ Melody' = Loaded
         /\ Size' = Length
         /\ UNCHANGED <<PlayerState, NextTrackID, CurrTrackID, NoteIndex>>

\* A note goes on.
Hold == /\ Goes("play", "check")
        /\ Playable
        /\ 0 < TickCount /\ TickCount < Duration
        /\ TickCount' = TickCount + 1
        /\ UNCHANGED <<PlayerState, NextTrackID, CurrTrackID, NoteIndex, Melody, Size,
                       pitchVars>>

Separate == PlayPitch(0)

\* Mutant: the last note is taken for one that has a next.
LastNoteOrNot == NoteIndex + 1 > Size

LastNote == NoteIndex + 1 >= Size

\* Mutant: the track is not forgotten with its last note.
TrackOverNot == CurrTrackID

TrackOver == MaxTracks

\* A note ends, and with the last note the track.
End == /\ Goes("play", "check")
       /\ Playable
       /\ TickCount >= Duration
       /\ TickCount' = 0
       /\ Separate
       /\ IF LastNote
          THEN /\ CurrTrackID' = TrackOver
               /\ NoteIndex' = FirstNote
               /\ Melody' = NULL
               /\ Size' = 0
          ELSE /\ NoteIndex' = NoteIndex + 1
               /\ UNCHANGED <<CurrTrackID, Melody, Size>>
       /\ UNCHANGED <<PlayerState, NextTrackID>>

\* After the loop the mailbox is emptied.
Leave == /\ Goes("leave", "hush")
         /\ NextTrackID' = MaxTracks
         /\ UNCHANGED <<PlayerState, trackVars, pitchVars>>

LastPitch == PlayPitch(0)

\* The last pitch; the thread returns and its locals are gone.
Hush == /\ Goes("hush", "done")
        /\ LastPitch
        /\ CurrTrackID' = MaxTracks
        /\ NoteIndex' = 0
        /\ TickCount' = 0
        /\ Melody' = NULL
        /\ Size' = 0
        /\ UNCHANGED <<PlayerState, NextTrackID>>

-----------------------------------------------------------------------------
PlayerStep == Check \/ Fetch \/ Idle \/ Begin \/ Hold \/ End \/ Leave \/ Hush

Next == (\E t \in Tracks : PlayTrackID(t)) \/ TaskEnds \/ PlayerStep

\* The player is scheduled; nobody has to ask for a track or to end the task.
Spec     == Init /\ [][Next]_vars
FairSpec == Spec /\ WF_vars(PlayerStep)

-----------------------------------------------------------------------------
PlayerTypeOK ==
  /\ PlayerState \in {"Running", "Ending"}
  /\ NextTrackID \in Tracks \cup {MaxTracks}
  /\ pc \in {"check", "fetch", "play", "leave", "hush", "done"}
  /\ CurrTrackID \in Tracks \cup {MaxTracks}
  /\ Size \in Nat /\ NoteIndex \in 0 .. Size
  /\ TickCount \in Nat
  /\ Melody \in Tracks \cup {NULL}
  /\ PwmTypeOK

\* The tables in use are those of the track and the index is inside them,
\* although a request may come after any note and Size is not reset with the
\* pointers (Audio.c:333-340): no other track's notes, no read past a table.
ReadsOwnTables ==
  /\ CurrTrackID # MaxTracks => Melody \in {NULL, CurrTrackID}
  /\ Melody = NULL => NoteIndex = 0 /\ TickCount = 0
  /\ Melody # NULL => NoteIndex < Len(Melodies[Melody]) /\ Size = Len(Melodies[Melody])

\* The setting of the channel is an earlier process's: no pitch was written yet.
LeftOver == CurrentFreq = 0 /\ duty_cycle > 0

\* Every note but the first of a track sounds at its own pitch for as long as it
\* lasts: the note before has ended in silence, so that neither a refused period
\* nor a remembered pitch stands in the way (Audio.c:363-373).  The first note
\* may keep an old tone that a request broke off.
NotesSound == TickCount > 0 /\ NoteIndex > 0 => Tone = Melodies[Melody][NoteIndex + 1]

\* Between tracks, and after the last, the channel is off: only a tone that an
\* earlier process left may go on until the first note is played.
RestsAreSilent ==
  (CurrTrackID = MaxTracks /\ NextTrackID = MaxTracks) \/ pc = "done"
     => Tone = 0 \/ LeftOver

\* The abstract player.
Tunes == INSTANCE Tune WITH
  request  <- NextTrackID,
  track    <- CurrTrackID,
  position <- NoteIndex + 1,
  sounding <- TickCount > 0,
  setting  <- Setting,
  on       <- Tone # 0,
  left     <- LeftOver,
  stopping <- PlayerState # "Running",
  stopped  <- pc = "done"

\* The loop with its counters, pointers and skipped writes plays the tune.
PlaysTune == Tunes!TuneSpec

\* When no more requests come, the track ends, and with it (RestsAreSilent) what
\* sounds; a player that is told to stop, stops (Audio.c:329, 379).
FallsSilent == <>[](NextTrackID = MaxTracks) => <>[](CurrTrackID = MaxTracks)
Stops       == PlayerState = "Ending" ~> pc = "done"
=============================================================================
