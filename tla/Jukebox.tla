------------------------------- MODULE Jukebox -------------------------------
(***************************************************************************)
(* What the audio service promises whoever asks it for tracks, without     *)
(* threads, mutexes, ring and mailbox: tracks sound in the order in which  *)
(* they were accepted, each at most once, and only if the speaker is open. *)
(*                                                                         *)
(* Not every request sounds.  While the service runs, one that waits may   *)
(* be dropped for one that came after it, never the last; when it does not *)
(* run, what waits may be dropped or stay for the next session.            *)
(***************************************************************************)
EXTENDS Naturals, SequencesExt

CONSTANTS Tracks,     \* the tracks
          Pitches,    \* the pitches there are
          Notes,      \* those of each track
          Stop,       \* the message that ends the service
          Player,     \* whoever may play
          MaxTracks,  \* no track
          Silence     \* no pitch

VARIABLES running,    \* the service says so, and its task is there
          waiting,    \* the messages accepted and not acted on, oldest first
          playing,    \* the track of each player, or none
          open,       \* the speaker is
          tone, on    \* the pitch the speaker is set to, whether it sounds

soundVars == <<tone, on>>
boxVars   == <<running, waiting, playing, open, soundVars>>

BoxInit == /\ running = FALSE
           /\ waiting = <<>>
           /\ playing = [p \in Player |-> MaxTracks]
           /\ open = FALSE
           /\ tone \in Pitches \cup {Silence}
           /\ on \in BOOLEAN
           /\ on => tone # Silence

\* The service starts or is told to stop.
RunOrStop == /\ running' = ~running
             /\ UNCHANGED <<waiting, playing, open, soundVars>>

Accept(m) == /\ waiting' = Append(waiting, m)
             /\ UNCHANGED <<running, playing, open, soundVars>>

\* Only what is not the last may be lost while the service runs.
Lose(i) == /\ running => i < Len(waiting)
           /\ waiting' = RemoveAt(waiting, i)
           /\ UNCHANGED <<running, playing, open, soundVars>>

\* Everything from the i-th on.
LoseFrom(i) == /\ ~running
               /\ waiting' = SubSeq(waiting, 1, i - 1)
               /\ UNCHANGED <<running, playing, open, soundVars>>

\* A player takes the request that is due, and leaves the track it is at.
Take(p) == /\ waiting # <<>>
           /\ Head(waiting) \in Tracks
           /\ playing' = [playing EXCEPT ![p] = Head(waiting)]
           /\ waiting' = Tail(waiting)
           /\ UNCHANGED <<running, open, soundVars>>

\* A tone that sounded, or was left by an earlier process, may go on in the place
\* of a note.
Sound(p) == /\ open
            /\ playing[p] # MaxTracks
            /\ on' = TRUE
            /\ \/ tone' \in Notes[playing[p]]
               \/ tone # Silence /\ UNCHANGED tone
            /\ UNCHANGED <<running, waiting, playing, open>>

Hush == tone' = Silence /\ on' = FALSE

\* A note or its track is over.
Pause(p) == /\ UNCHANGED soundVars \/ Hush
            /\ playing' \in {playing, [playing EXCEPT ![p] = MaxTracks]}
            /\ UNCHANGED <<running, waiting, open>>

Open == /\ open' = TRUE
        /\ UNCHANGED <<running, waiting, playing, soundVars>>

\* Whatever sounded is over.
Close == /\ ~running
         /\ open' = FALSE
         /\ Hush
         /\ UNCHANGED <<running, waiting, playing>>

BoxNext == \/ \E p \in Player : Pause(p) \/ Sound(p) \/ Take(p)
           \/ RunOrStop \/ Open \/ Close
           \/ \E m \in Tracks \cup {Stop} : Accept(m)
           \/ \E i \in DOMAIN waiting : Lose(i) \/ LoseFrom(i)

BoxSpec == BoxInit /\ [][BoxNext]_boxVars
=============================================================================
