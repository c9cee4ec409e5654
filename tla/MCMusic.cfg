\* All tracks of Music.h at a twentieth of their length; periods in nanoseconds.
SPECIFICATION FairSpec
CONSTANTS
  Pitches <- AllPitches
  Second = 1000000000
  Tracks <- MusicTracks
  MaxTracks = MaxTracks
  Melodies <- MusicMelodies
  Rhythms <- MusicRhythms
  NULL = NULL
INVARIANT ReadsOwnTables
PROPERTIES PlaysTune FallsSilent Stops
CHECK_DEADLOCK FALSE
