\* Two clients, two sessions, a ring of two slots; Speaker_Init may fail.
SPECIFICATION Spec
CONSTANTS
  Client = {c1, c2}
  MaxTasks = 2
  Tracks = {t1}
  MSG_Q_LENGTH = 2
  MSG_ID_END = MSG_ID_END
  MaxTracks = MaxTracks
  Pitches = {f1, f2}
  Notes <- MCNotes
  Silence = Silence
  Nobody = Nobody
  Destroyed = Destroyed
  SpeakerMayFail = TRUE
  PlayerMayFail = TRUE
SYMMETRY Interchangeable
CONSTRAINT Explored
INVARIANTS AudioTypeOK EndGoesThrough MsgMutexExcludes MutexOutlivesTask
  OneVoice RunningIsServed CleanSlate NoteNotSkipped
PROPERTY PlaysRequests
