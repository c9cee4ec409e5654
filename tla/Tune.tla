-------------------------------- MODULE Tune --------------------------------
(***************************************************************************)
(* What PlayerTaskLoop promises, without ticks, pointers and remembered    *)
(* pitches: the notes of the track asked for last sound one after the      *)
(* other, each at its pitch, with silence after each of them.              *)
(*                                                                         *)
(* Three things are not promised, and are said here.  A request breaks the *)
(* note that sounds, and the first note of the new track may then keep the *)
(* old tone if that is more than an octave lower.  A tone left by an       *)
(* earlier process sounds until the first note.  A request that the player *)
(* has not taken when it is stopped is dropped.                            *)
(***************************************************************************)
EXTENDS Integers, Sequences

CONSTANTS Tracks,     \* the tracks
          Melodies,   \* the pitches of their notes
          MaxTracks   \* no track

VARIABLES request,    \* the track asked for and not taken, or none
          track,      \* the track being played
          position,   \* the note that sounds or comes next
          sounding,   \* the note has begun
          setting,    \* the frequency the channel is set to
          on,         \* a tone sounds
          left,       \* the setting is an earlier process's
          stopping, stopped

tuneVars == <<request, track, position, sounding, setting, on, left, stopping, stopped>>

TuneInit == /\ request = MaxTracks
            /\ track = MaxTracks
            /\ position = 1
            /\ sounding = FALSE
            /\ setting \in Nat
            /\ on \in BOOLEAN /\ (on => setting # 0)
            /\ left = (setting # 0)
            /\ stopping = FALSE
            /\ stopped = FALSE

Ask == /\ ~stopping
       /\ \E t \in Tracks : request' = t
       /\ UNCHANGED <<track, position, sounding, setting, on, left, stopping, stopped>>

Take == /\ ~stopped
        /\ request # MaxTracks
        /\ request' = MaxTracks
        /\ track' = request
        /\ position' = 1
        /\ sounding' = FALSE
        /\ UNCHANGED <<setting, on, left, stopping, stopped>>

Hush == setting' = 0 /\ on' = FALSE

Begin == /\ ~stopped
         /\ track # MaxTracks
         /\ ~sounding
         /\ sounding' = TRUE
         /\ LET f == Melodies[track][position]
            IN \/ f = 0 /\ Hush
               \/ f # 0 /\ setting' = f /\ on' = TRUE
               \/ f > 2 * setting /\ setting # 0 /\ UNCHANGED setting /\ on' = TRUE
         /\ left' = FALSE
         /\ UNCHANGED <<request, track, position, stopping, stopped>>

\* The last note of a track ends the track.
End == /\ ~stopped
       /\ sounding
       /\ sounding' = FALSE
       /\ Hush
       /\ IF position < Len(Melodies[track])
          THEN position' = position + 1 /\ UNCHANGED track
          ELSE position' = 1 /\ track' = MaxTracks
       /\ UNCHANGED <<request, left, stopping, stopped>>

Stop == /\ stopping' = TRUE
        /\ UNCHANGED <<request, track, position, sounding, setting, on, left, stopped>>

Withdraw == /\ stopping /\ ~stopped
            /\ request' = MaxTracks
            /\ UNCHANGED <<track, position, sounding, setting, on, left, stopping, stopped>>

\* The last step: whatever was played is over.
Finish == /\ stopping /\ ~stopped
          /\ stopped' = TRUE
          /\ track' = MaxTracks
          /\ position' = 1
          /\ sounding' = FALSE
          /\ IF left THEN UNCHANGED <<setting, on>> ELSE Hush
          /\ UNCHANGED <<request, left, stopping>>

TuneNext == Ask \/ Take \/ Begin \/ End \/ Stop \/ Withdraw \/ Finish

TuneSpec == TuneInit /\ [][TuneNext]_tuneVars
=============================================================================
